---------------------------- MODULE Spec2Model ----------------------------
(***************************************************************************)
(* A model of sbJSON (src/sbJSON.c, src/sbJSON_Utils.c): the value tree    *)
(* with its intrusive sibling links, the recursive-descent parser, the     *)
(* printer, structural comparison, JSON Patch and JSON Merge Patch.        *)
(*                                                                         *)
(* Memory is a heap: a function from node addresses (positive integers) to *)
(* sbJSON structs.  Every C function that changes memory is an operator    *)
(* from a heap to a heap (and a result); the actions of the specifications *)
(* apply these operators.                                                  *)
(***************************************************************************)
EXTENDS Integers, Sequences, FiniteSets, TLC

VARIABLES
    heap,      \* address -> struct sbJSON, for every allocated node
    kids,      \* history: container address -> the children the calls so far gave it
    detached,  \* history: nodes handed back by a detach and not attached since
    freed,     \* the blocks the last call handed to global_hooks.deallocate
    last,      \* the last call and what it returned
    pc         \* which specification runs, and its phase

vars == <<heap, kids, detached, freed, last, pc>>

-----------------------------------------------------------------------------
(* Bounds of the model. *)

\* the caller of the tree machine holds at most this many nodes beside its
\* array and its object
MaxNodes == 2

-----------------------------------------------------------------------------
(* Pointers, strings and the union U.                                      *)

\* a NULL struct pointer
NULL == 0

\* A char* is NULLP or a pointer to a block holding a string; `own' tells
\* who allocated the block: "heap" (global_hooks.allocate) or "ext" (the
\* caller's memory).  union U (valuestring / valueint / valuedouble share
\* their bytes) holds either such a pointer or the bits of a number: the
\* all-zero bits are at once the NULL pointer, the integer 0 and +0.0.
NULLP == [p |-> "NULL"]

StrPtr(s, own) == [p |-> "str", s |-> s, own |-> own]

\* the bits of a non-zero number, named by the word w
Bits(w) == [p |-> "bits", w |-> w]

\* memset(node, 0, sizeof(sbJSON)) of sbJSON_New_Item
ZeroNode ==
    [next |-> NULL, prev |-> NULL, child |-> NULL, type |-> "Invalid",
     is_reference |-> FALSE, string_is_const |-> FALSE, u |-> NULLP,
     is_number_double |-> FALSE, string |-> NULLP]

\* the address hooks->allocate returns: the lowest one not in use
NewAddr(h) == CHOOSE a \in 1..(Cardinality(DOMAIN h) + 1) :
                 /\ a \notin DOMAIN h
                 /\ \A b \in 1..(a - 1) : b \in DOMAIN h

\* sbJSON_New_Item: [h |-> the heap with the new zeroed node, r |-> its address]
sbJSON_New_Item(h) ==
    LET a == NewAddr(h) IN [h |-> (a :> ZeroNode) @@ h, r |-> a]

\* sbJSON_strdup: NULL for NULL, else a fresh heap copy
sbJSON_strdup(str) == IF str = NULLP THEN NULLP ELSE StrPtr(str.s, "heap")

\* the heap h without the block at address a
Release(h, a) == [b \in (DOMAIN h) \ {a} |-> h[b]]

\* the heap h with field-record upd written over node a
Store(h, a, upd) ==
    [h EXCEPT ![a] = [f \in DOMAIN h[a] |->
                         IF f \in DOMAIN upd THEN upd[f] ELSE h[a][f]]]

-----------------------------------------------------------------------------
(* sbJSON.c: deletion.                                                     *)

\* a block handed to global_hooks.deallocate: the struct at address `at',
\* or the pointer ptr read from field `field' of the struct at `at'
NodeBlock(at) == [what |-> "node", at |-> at]

PtrBlock(at, field, ptr) == [what |-> field, at |-> at, ptr |-> ptr]

\* sbJSON_Delete: walks the next chain from item; for every node deletes the
\* children (unless is_reference), deallocates u.valuestring when it is not
\* NULL (unless is_reference), deallocates the key (unless string_is_const)
\* and deallocates the node.  Result: the heap left, the blocks deallocated
\* in order, and ub = a node was read after it had been deallocated.
RECURSIVE sbJSON_Delete(_, _)
sbJSON_Delete(h, item) ==
    IF item = NULL THEN [h |-> h, freed |-> <<>>, ub |-> FALSE]
    ELSE IF item \notin DOMAIN h THEN [h |-> h, freed |-> <<>>, ub |-> TRUE]
    ELSE
      LET n  == h[item]
          r1 == IF (~n.is_reference) /\ n.child # NULL
                THEN sbJSON_Delete(h, n.child)
                ELSE [h |-> h, freed |-> <<>>, ub |-> FALSE]
          f2 == IF (~n.is_reference) /\ n.u # NULLP
                THEN <<PtrBlock(item, "valuestring", n.u)>> ELSE <<>>
          f3 == IF (~n.string_is_const) /\ n.string # NULLP
                THEN <<PtrBlock(item, "string", n.string)>> ELSE <<>>
          r4 == sbJSON_Delete(Release(r1.h, item), n.next)
      IN IF item \notin DOMAIN r1.h
         THEN [h |-> r1.h, freed |-> r1.freed, ub |-> TRUE]
         ELSE [h |-> r4.h,
               freed |-> r1.freed \o f2 \o f3 \o <<NodeBlock(item)>> \o r4.freed,
               ub |-> r1.ub \/ r4.ub]

-----------------------------------------------------------------------------
(* sbJSON.c: the sibling list of a container.                              *)

\* get_array_item: the index-th node of the next chain from array->child
RECURSIVE NthFrom(_, _, _)
NthFrom(h, current_child, index) ==
    IF current_child # NULL /\ index > 0
    THEN NthFrom(h, h[current_child].next, index - 1)
    ELSE current_child

get_array_item(h, array, index) ==
    IF array = NULL THEN NULL ELSE NthFrom(h, h[array].child, index)

\* suffix_object with the second assignment left out
suffix_object_no_prev(h, prev, item) == [h EXCEPT ![prev].next = item]

\* suffix_object: prev->next = item; item->prev = prev
suffix_object(h, prev, item) ==
    [h EXCEPT ![prev].next = item, ![item].prev = prev]

\* add_item_to_array: [h |-> heap after, r |-> the bool returned]
add_item_to_array(h, array, item) ==
    IF item = NULL THEN [h |-> h, r |-> FALSE]
    ELSE
      LET child == h[array].child IN
      IF child = NULL
      THEN [h |-> [h EXCEPT ![array].child = item,
                            ![item].prev = item,
                            ![item].next = NULL],
            r |-> TRUE]
      ELSE IF h[child].prev # NULL
      THEN LET h1 == suffix_object(h, h[child].prev, item)
           IN  [h |-> [h1 EXCEPT ![h1[array].child].prev = item], r |-> TRUE]
      ELSE [h |-> h, r |-> TRUE]

\* sbJSON_AddItemToArray
sbJSON_AddItemToArray(h, array, item) == add_item_to_array(h, array, item)

\* add_item_to_object: sets the key of item (a copy, or the caller's string
\* when constant_key), deallocating an owned old key, then appends;
\* [h, r, freed]
add_item_to_object(h, object, string, item, constant_key) ==
    IF item = NULL THEN [h |-> h, r |-> FALSE, freed |-> <<>>]
    ELSE
      LET new_key == IF constant_key THEN string ELSE sbJSON_strdup(string)
          is_reference == IF constant_key THEN FALSE ELSE h[item].is_reference
          fr == IF (~h[item].string_is_const) /\ h[item].string # NULLP
                THEN <<PtrBlock(item, "string", h[item].string)>> ELSE <<>>
          h1 == [h EXCEPT ![item].string = new_key,
                          ![item].is_reference = is_reference,
                          ![item].string_is_const = constant_key]
          a  == add_item_to_array(h1, object, item)
      IN IF (~constant_key) /\ new_key = NULLP
         THEN [h |-> h, r |-> FALSE, freed |-> <<>>]
         ELSE [h |-> a.h, r |-> a.r, freed |-> fr]

\* sbJSON_AddItemToObject: the key is copied
sbJSON_AddItemToObject(h, object, string, item) ==
    add_item_to_object(h, object, string, item, FALSE)

\* sbJSON_AddItemToObjectCS: the key is the caller's constant string
sbJSON_AddItemToObjectCS(h, object, string, item) ==
    add_item_to_object(h, object, string, item, TRUE)

\* sbJSON_DetachItemViaPointer: [h, r |-> item or NULL]
sbJSON_DetachItemViaPointer(h, parent, item) ==
    IF parent = NULL \/ item = NULL THEN [h |-> h, r |-> NULL]
    ELSE
      LET h1 == IF item # h[parent].child
                THEN [h EXCEPT ![h[item].prev].next = h[item].next] ELSE h
          h2 == IF h1[item].next # NULL
                THEN [h1 EXCEPT ![h1[item].next].prev = h1[item].prev] ELSE h1
          h3 == IF item = h2[parent].child
                THEN [h2 EXCEPT ![parent].child = h2[item].next]
                ELSE IF h2[item].next = NULL
                THEN [h2 EXCEPT ![h2[parent].child].prev = h2[item].prev]
                ELSE h2
      IN [h |-> [h3 EXCEPT ![item].prev = NULL, ![item].next = NULL],
          r |-> item]

\* sbJSON_InsertItemInArray: [h, r]
sbJSON_InsertItemInArray(h, array, which, newitem) ==
    IF which < 0 \/ newitem = NULL THEN [h |-> h, r |-> FALSE]
    ELSE
      LET after_inserted == get_array_item(h, array, which) IN
      IF after_inserted = NULL THEN add_item_to_array(h, array, newitem)
      ELSE IF after_inserted # h[array].child /\ h[after_inserted].prev = NULL
      THEN [h |-> h, r |-> FALSE]
      ELSE
        LET h1 == [h EXCEPT ![newitem].next = after_inserted,
                            ![newitem].prev = h[after_inserted].prev]
            h2 == [h1 EXCEPT ![after_inserted].prev = newitem]
            h3 == IF after_inserted = h2[array].child
                  THEN [h2 EXCEPT ![array].child = newitem]
                  ELSE [h2 EXCEPT ![h2[newitem].prev].next = newitem]
        IN [h |-> h3, r |-> TRUE]

\* The relinking of sbJSON_ReplaceItemViaPointer up to its call of
\* sbJSON_Delete(item): the heap in which replacement has taken item's place
\* and item->next and item->prev have been set to NULL.
ReplaceRelink(h, parent, item, replacement) ==
    LET h1 == [h EXCEPT ![replacement].next = h[item].next,
                        ![replacement].prev = h[item].prev]
        h2 == IF h1[replacement].next # NULL
              THEN [h1 EXCEPT ![h1[replacement].next].prev = replacement]
              ELSE h1
        h3 == IF h2[parent].child = item
              THEN LET c  == h2[parent].child
                       h4 == IF h2[c].prev = c
                             THEN [h2 EXCEPT ![replacement].prev = replacement]
                             ELSE h2
                   IN [h4 EXCEPT ![parent].child = replacement]
              ELSE LET h5 == IF h2[replacement].prev # NULL
                             THEN [h2 EXCEPT ![h2[replacement].prev].next =
                                                 replacement]
                             ELSE h2
                   IN IF h5[replacement].next = NULL
                      THEN [h5 EXCEPT ![h5[parent].child].prev = replacement]
                      ELSE h5
    IN [h3 EXCEPT ![item].next = NULL, ![item].prev = NULL]

\* sbJSON_ReplaceItemViaPointer: [h, r, freed]
sbJSON_ReplaceItemViaPointer(h, parent, item, replacement) ==
    IF parent = NULL \/ replacement = NULL \/ item = NULL
    THEN [h |-> h, r |-> FALSE, freed |-> <<>>]
    ELSE IF h[parent].child = NULL THEN [h |-> h, r |-> FALSE, freed |-> <<>>]
    ELSE IF replacement = item THEN [h |-> h, r |-> TRUE, freed |-> <<>>]
    ELSE LET d == sbJSON_Delete(ReplaceRelink(h, parent, item, replacement), item)
         IN [h |-> d.h, r |-> TRUE, freed |-> d.freed]

-----------------------------------------------------------------------------
(* sbJSON.c: constructors.  Each returns [h |-> heap after, r |-> node].    *)

\* a new zeroed node with the fields of upd set
NewWith(h, upd) ==
    LET n == sbJSON_New_Item(h) IN [h |-> Store(n.h, n.r, upd), r |-> n.r]

sbJSON_CreateNull(h) == NewWith(h, [type |-> "NULL"])

sbJSON_CreateTrue(h) == NewWith(h, [type |-> "True"])

sbJSON_CreateFalse(h) == NewWith(h, [type |-> "False"])

sbJSON_CreateBool(h, boolean) ==
    NewWith(h, [type |-> IF boolean THEN "True" ELSE "False"])

sbJSON_CreateArray(h) == NewWith(h, [type |-> "Array"])

sbJSON_CreateObject(h) == NewWith(h, [type |-> "Object"])

\* sbJSON_CreateString: the value is a heap copy of string
sbJSON_CreateString(h, string) ==
    IF sbJSON_strdup(string) = NULLP THEN [h |-> h, r |-> NULL]
    ELSE NewWith(h, [type |-> "String", u |-> sbJSON_strdup(string)])

\* sbJSON_CreateRaw: the value is a heap copy of raw
sbJSON_CreateRaw(h, raw) ==
    IF sbJSON_strdup(raw) = NULLP THEN [h |-> h, r |-> NULL]
    ELSE NewWith(h, [type |-> "Raw", u |-> sbJSON_strdup(raw)])

\* sbJSON_CreateStringReference: the value is the caller's string itself
sbJSON_CreateStringReference(h, string) ==
    NewWith(h, [type |-> "String", is_reference |-> TRUE, u |-> string])

\* sbJSON_CreateObjectReference / sbJSON_CreateArrayReference: child is the
\* caller's node itself
sbJSON_CreateObjectReference(h, child) ==
    NewWith(h, [type |-> "Object", is_reference |-> TRUE, child |-> child])

sbJSON_CreateArrayReference(h, child) ==
    NewWith(h, [type |-> "Array", is_reference |-> TRUE, child |-> child])

-----------------------------------------------------------------------------
(* The tree machine: a caller that creates nodes and links them with the   *)
(* list operations.  kids records, for every node, the children the calls  *)
(* gave it, in order; the caller attaches only nodes that are in no list   *)
(* and never a node to itself or to one of its descendants.                *)

Range(s) == {s[i] : i \in 1..Len(s)}

\* the characters are one-character strings; a C string is a sequence of them
KeyA == <<"a">>

KeyB == <<"b">>

TreeKeys == {StrPtr(KeyA, "ext")}

\* n is in no container's list
IsRoot(k, n) == \A p \in DOMAIN k : n \notin Range(k[p])

\* n and everything below it
RECURSIVE Below(_, _)
Below(k, n) == {n} \cup UNION {Below(k, c) : c \in Range(k[n])}

IsContainer(h, n) == h[n].type \in {"Array", "Object"}

\* the caller may hand item to a call that attaches it under parent
Attachable(parent, item) ==
    /\ item \in DOMAIN heap
    /\ IsRoot(kids, item)
    /\ parent \notin Below(kids, item)

\* s with x put before position i (1-based), at the end when i > Len(s)
InsertAt(s, i, x) ==
    IF i > Len(s) THEN Append(s, x)
    ELSE SubSeq(s, 1, i - 1) \o <<x>> \o SubSeq(s, i, Len(s))

\* s without its element x
Without(s, x) == SelectSeq(s, LAMBDA y : y # x)

\* k restricted to the nodes of h
Restrict(k, h) == [n \in DOMAIN h |-> k[n]]

\* the caller starts with an empty array and an empty object
TreeInit ==
    /\ heap = sbJSON_CreateObject(sbJSON_CreateArray(<<>>).h).h
    /\ kids = [n \in DOMAIN heap |-> <<>>]
    /\ detached = {}
    /\ freed = <<>>
    /\ last = [op |-> "none", r |-> TRUE]
    /\ pc = "tree"

\* one of the constructors
Create(c, op) ==
    /\ pc = "tree"
    /\ Cardinality({n \in DOMAIN heap : ~IsContainer(heap, n)}) < MaxNodes
    /\ heap' = c.h
    /\ kids' = (c.r :> <<>>) @@ kids
    /\ freed' = <<>>
    /\ last' = [op |-> op, r |-> TRUE]
    /\ UNCHANGED <<detached, pc>>

CallCreateString == Create(sbJSON_CreateString(heap, StrPtr(KeyA, "ext")), "CreateString")

CallAddItemToArray ==
    /\ pc = "tree"
    /\ \E array \in DOMAIN heap, item \in DOMAIN heap :
         /\ heap[array].type = "Array"
         /\ Attachable(array, item)
         /\ LET a == sbJSON_AddItemToArray(heap, array, item) IN
              /\ heap' = a.h
              /\ kids' = IF a.r THEN [kids EXCEPT ![array] = Append(@, item)]
                         ELSE kids
              /\ detached' = IF a.r THEN detached \ {item} ELSE detached
              /\ last' = [op |-> "AddItemToArray", r |-> a.r]
    /\ freed' = <<>>
    /\ UNCHANGED pc

CallAddItemToObject ==
    /\ pc = "tree"
    /\ \E object \in DOMAIN heap, item \in DOMAIN heap, key \in TreeKeys :
         /\ heap[object].type = "Object"
         /\ Attachable(object, item)
         /\ LET a == sbJSON_AddItemToObject(heap, object, key, item) IN
              /\ heap' = a.h
              /\ kids' = IF a.r THEN [kids EXCEPT ![object] = Append(@, item)]
                         ELSE kids
              /\ detached' = IF a.r THEN detached \ {item} ELSE detached
              /\ freed' = a.freed
              /\ last' = [op |-> "AddItemToObject", r |-> a.r]
    /\ UNCHANGED pc

CallInsertItemInArray ==
    /\ pc = "tree"
    /\ \E array \in DOMAIN heap, item \in DOMAIN heap, which \in (-1)..MaxNodes :
         /\ heap[array].type = "Array"
         /\ Attachable(array, item)
         /\ LET a == sbJSON_InsertItemInArray(heap, array, which, item) IN
              /\ heap' = a.h
              /\ kids' = IF a.r
                         THEN [kids EXCEPT ![array] = InsertAt(@, which + 1, item)]
                         ELSE kids
              /\ detached' = IF a.r THEN detached \ {item} ELSE detached
              /\ last' = [op |-> "InsertItemInArray", r |-> a.r]
    /\ freed' = <<>>
    /\ UNCHANGED pc

CallDetachItemViaPointer ==
    /\ pc = "tree"
    /\ \E parent \in DOMAIN heap :
         \E item \in Range(kids[parent]) :
           LET d == sbJSON_DetachItemViaPointer(heap, parent, item) IN
             /\ heap' = d.h
             /\ kids' = [kids EXCEPT ![parent] = Without(@, item)]
             /\ detached' = detached \cup {d.r}
             /\ last' = [op |-> "DetachItemViaPointer", r |-> TRUE]
    /\ freed' = <<>>
    /\ UNCHANGED pc

CallReplaceItemViaPointer ==
    /\ pc = "tree"
    /\ \E parent \in DOMAIN heap, replacement \in DOMAIN heap :
         \E item \in Range(kids[parent]) :
           /\ Attachable(parent, replacement)
           /\ LET a == sbJSON_ReplaceItemViaPointer(heap, parent, item, replacement)
                  out == ReplaceRelink(heap, parent, item, replacement)[item]
              IN
                /\ heap' = a.h
                /\ kids' = Restrict([kids EXCEPT ![parent] =
                                [i \in 1..Len(@) |->
                                    IF @[i] = item THEN replacement ELSE @[i]]],
                              a.h)
                /\ detached' = (detached \ {replacement}) \cap DOMAIN a.h
                /\ freed' = a.freed
                /\ last' = [op |-> "ReplaceItemViaPointer", r |-> a.r,
                            next |-> out.next, prev |-> out.prev]
    /\ UNCHANGED pc

CallDelete ==
    /\ pc = "tree"
    /\ \E item \in DOMAIN heap :
         /\ IsRoot(kids, item)
         /\ LET d == sbJSON_Delete(heap, item) IN
              /\ heap' = d.h
              /\ kids' = Restrict(kids, d.h)
              /\ detached' = detached \cap DOMAIN d.h
              /\ freed' = d.freed
              /\ last' = [op |-> "Delete", r |-> ~d.ub]
    /\ UNCHANGED pc

TreeNext ==
    \/ CallCreateString
    \/ CallAddItemToArray
    \/ CallAddItemToObject
    \/ CallInsertItemInArray
    \/ CallDetachItemViaPointer
    \/ CallReplaceItemViaPointer
    \/ CallDelete

Spec == TreeInit /\ [][TreeNext]_vars

-----------------------------------------------------------------------------
(* Well-linked child lists.                                                *)

\* the nodes the next chain from n visits, at most fuel of them
RECURSIVE Chain(_, _, _)
Chain(h, n, fuel) ==
    IF n = NULL \/ fuel = 0 \/ n \notin DOMAIN h THEN <<>>
    ELSE <<n>> \o Chain(h, h[n].next, fuel - 1)

\* the next chain from p's child
ChildList(h, p) == Chain(h, h[p].child, Cardinality(DOMAIN h) + 1)

WellLinked(h, k, p) ==
    LET c == ChildList(h, p) IN
      /\ c = k[p]
      /\ \A i, j \in 1..Len(c) : i # j => c[i] # c[j]
      /\ Len(c) > 0 => h[c[Len(c)]].next = NULL
      /\ \A i \in 2..Len(c) : h[c[i]].prev = c[i - 1]
      /\ Len(c) > 0 => h[c[1]].prev = c[Len(c)]

\* C1: after any sequence of successful AddItemToArray, AddItemToObject,
\* InsertItemInArray, DetachItemViaPointer and ReplaceItemViaPointer calls,
\* the next chain of every node visits exactly the children it was given,
\* each once, and ends at NULL; every non-first child's prev is its
\* predecessor and the first child's prev is the last child; a node that
\* was detached, or replaced out, has next = prev = NULL.
C1_WellLinked ==
    pc = "tree" =>
      /\ \A p \in DOMAIN heap : WellLinked(heap, kids, p)
      /\ \A n \in detached : heap[n].next = NULL /\ heap[n].prev = NULL
      /\ last.op = "ReplaceItemViaPointer" =>
            last.next = NULL /\ last.prev = NULL

\* a child has just been replaced in a list while a detached node is held
C1_Witness ==
    /\ pc = "tree"
    /\ last.op = "ReplaceItemViaPointer"
    /\ \E p \in DOMAIN heap : Len(kids[p]) > 0 /\ WellLinked(heap, kids, p)
    /\ detached # {}

-----------------------------------------------------------------------------
(* Numbers.  A double of the model is a number of halves: 3 is 1.5.  The   *)
(* bits of a number lie in union U, where the non-zero ones read as a      *)
(* non-NULL valuestring.                                                    *)

\* u.valueint = num
IntBits(num) == IF num = 0 THEN NULLP ELSE Bits([t |-> "int", v |-> num])

\* u.valuedouble = num (in halves)
DblBits(num) == IF num = 0 THEN NULLP ELSE Bits([t |-> "dbl", v |-> num])

sbJSON_CreateIntegerNumber(h, num) ==
    NewWith(h, [type |-> "Number", u |-> IntBits(num),
                is_number_double |-> FALSE])

sbJSON_CreateDoubleNumber(h, num) ==
    NewWith(h, [type |-> "Number", u |-> DblBits(num),
                is_number_double |-> TRUE])

-----------------------------------------------------------------------------
(* Descriptions of the trees a caller builds with the constructors and     *)
(* sbJSON_AddItemToArray / sbJSON_AddItemToObject(CS).                      *)

VNull == [k |-> "null"]

VTrue == [k |-> "true"]

VFalse == [k |-> "false"]

VInt(n) == [k |-> "int", n |-> n]

VDbl(m) == [k |-> "dbl", m |-> m]

VStr(s) == [k |-> "str", s |-> s]

VStrRef(s) == [k |-> "strref", s |-> s]

VRaw(s) == [k |-> "raw", s |-> s]

VArr(items) == [k |-> "arr", items |-> items]

\* members: a sequence of [key, cs, v]; cs = the key is added as a constant
VObj(members) == [k |-> "obj", items |-> members]

\* an array reference to the children of the array described by v
VArrRef(v) == [k |-> "arrref", of |-> v]

Member(key, v) == [key |-> key, cs |-> FALSE, v |-> v]

MemberCS(key, v) == [key |-> key, cs |-> TRUE, v |-> v]

\* the sequences over S of length at most n
SeqUpTo(S, n) == UNION {[1..m -> S] : m \in 0..n}

\* BuildTree: the calls that build the tree described by v in heap h;
\* [h |-> heap after, r |-> the root]
RECURSIVE BuildTree(_, _), BuildItems(_, _, _, _)
BuildTree(h, v) ==
    CASE v.k = "null" -> sbJSON_CreateNull(h)
      [] v.k = "true" -> sbJSON_CreateTrue(h)
      [] v.k = "false" -> sbJSON_CreateFalse(h)
      [] v.k = "int" -> sbJSON_CreateIntegerNumber(h, v.n)
      [] v.k = "dbl" -> sbJSON_CreateDoubleNumber(h, v.m)
      [] v.k = "str" -> sbJSON_CreateString(h, StrPtr(v.s, "ext"))
      [] v.k = "strref" -> sbJSON_CreateStringReference(h, StrPtr(v.s, "ext"))
      [] v.k = "raw" -> sbJSON_CreateRaw(h, StrPtr(v.s, "ext"))
      [] v.k = "arr" ->
           LET c == sbJSON_CreateArray(h) IN BuildItems(c.h, c.r, v.items, 1)
      [] v.k = "obj" ->
           LET c == sbJSON_CreateObject(h) IN BuildItems(c.h, c.r, v.items, 1)
      [] v.k = "arrref" ->
           LET t == BuildTree(h, v.of)
           IN sbJSON_CreateArrayReference(t.h, t.h[t.r].child)

BuildItems(h, parent, items, i) ==
    IF i > Len(items) THEN [h |-> h, r |-> parent]
    ELSE
      LET isobj == h[parent].type = "Object"
          c == BuildTree(h, IF isobj THEN items[i].v ELSE items[i])
          a == IF ~isobj THEN sbJSON_AddItemToArray(c.h, parent, c.r)
               ELSE IF items[i].cs
               THEN sbJSON_AddItemToObjectCS(c.h, parent,
                                             StrPtr(items[i].key, "ext"), c.r)
               ELSE sbJSON_AddItemToObject(c.h, parent,
                                           StrPtr(items[i].key, "ext"), c.r)
      IN BuildItems(a.h, parent, items, i + 1)

-----------------------------------------------------------------------------
(* Deleting a tree: the caller builds a tree and calls sbJSON_Delete on it. *)

\* the arrays and objects of the deletion inputs have at most this many items
MaxDeleteWidth == 2

DeleteLeaves ==
    {VNull, VTrue, VInt(0), VInt(1), VDbl(3), VStr(KeyA), VStrRef(KeyA),
     VRaw(KeyB)}

DeleteArrays == {VArr(s) : s \in SeqUpTo(DeleteLeaves, MaxDeleteWidth)}

DeleteObjects ==
    {VObj(<<[key |-> KeyA, cs |-> c, v |-> v]>>) :
        c \in BOOLEAN, v \in DeleteLeaves \cup {VArr(<<>>)}}

DeleteInputs ==
    DeleteLeaves \cup DeleteArrays \cup DeleteObjects
      \cup {VArr(<<v>>) : v \in DeleteObjects}
      \cup {VArrRef(VArr(<<v>>)) : v \in DeleteLeaves}

\* the blocks the list starting at n owns: every node, the valuestring of a
\* String or Raw node and the children of a container unless the node is a
\* reference, and the key unless it is constant
RECURSIVE Owned(_, _)
Owned(h, n) ==
    IF n = NULL THEN {}
    ELSE {NodeBlock(n)}
           \cup (IF h[n].type \in {"String", "Raw"} /\ ~h[n].is_reference
                    /\ h[n].u # NULLP
                 THEN {PtrBlock(n, "valuestring", h[n].u)} ELSE {})
           \cup (IF h[n].string # NULLP /\ ~h[n].string_is_const
                 THEN {PtrBlock(n, "string", h[n].string)} ELSE {})
           \cup (IF ~h[n].is_reference THEN Owned(h, h[n].child) ELSE {})
           \cup Owned(h, h[n].next)

DeleteInit ==
    /\ \E v \in DeleteInputs :
         LET b == BuildTree(<<>>, v) IN
           /\ heap = b.h
           /\ last = [op |-> "BuildTree", r |-> b.r]
    /\ kids = <<>>
    /\ detached = {}
    /\ freed = <<>>
    /\ pc = "delete"

DeleteTree ==
    /\ pc = "delete"
    /\ LET d == sbJSON_Delete(heap, last.r) IN
         /\ heap' = d.h
         /\ freed' = d.freed
         /\ last' = [op |-> "Delete", r |-> last.r, ub |-> d.ub,
                     owned |-> Owned(heap, last.r),
                     others |-> DOMAIN heap \ {b.at : b \in Owned(heap, last.r)}]
    /\ pc' = "deleted"
    /\ UNCHANGED <<kids, detached>>

DeleteNext == DeleteTree

SpecDelete == DeleteInit /\ [][DeleteNext]_vars

\* C2: sbJSON_Delete hands to the deallocator exactly the blocks the tree
\* owns, each once: every node, every owned key and every owned string
\* value; never the children or the string of a reference node, never a
\* constant key, and never the value of a node that holds no allocated
\* string (a Number, a boolean, a null).
C2_DeleteExact ==
    pc = "deleted" =>
      /\ \A i, j \in 1..Len(freed) : i # j => freed[i] # freed[j]
      /\ Range(freed) = last.owned
      /\ \A b \in Range(freed) :
            b.what # "node" => b.ptr.p = "str" /\ b.ptr.own = "heap"
      /\ DOMAIN heap = last.others

\* the deleted tree was the single integer node 1
C2_Witness ==
    /\ pc = "deleted"
    /\ last.owned = {NodeBlock(1)}
    /\ freed = <<PtrBlock(1, "valuestring", IntBits(1)), NodeBlock(1)>>

-----------------------------------------------------------------------------
(* Characters.  A character is a one-character string, or the name of a    *)
(* byte that has no printable form: NUL (0), SOH (1), BS (8), xC3 (0xC3)   *)
(* and so on.  Code is the unsigned char value.                            *)

Digits == {"0", "1", "2", "3", "4", "5", "6", "7", "8", "9"}

Code ==
    [c \in {"NUL"} |-> 0] @@ [c \in {"SOH"} |-> 1] @@ [c \in {"BS"} |-> 8]
    @@ ("\t" :> 9) @@ ("\n" :> 10) @@ ("\f" :> 12) @@ ("\r" :> 13)
    @@ (" " :> 32) @@ ("\"" :> 34) @@ ("+" :> 43) @@ ("," :> 44)
    @@ ("-" :> 45) @@ ("." :> 46) @@ ("/" :> 47)
    @@ ("0" :> 48) @@ ("1" :> 49) @@ ("2" :> 50) @@ ("3" :> 51)
    @@ ("4" :> 52) @@ ("5" :> 53) @@ ("6" :> 54) @@ ("7" :> 55)
    @@ ("8" :> 56) @@ ("9" :> 57) @@ (":" :> 58)
    @@ ("A" :> 65) @@ ("B" :> 66) @@ ("C" :> 67) @@ ("D" :> 68)
    @@ ("E" :> 69) @@ ("F" :> 70)
    @@ ("[" :> 91) @@ ("\\" :> 92) @@ ("]" :> 93)
    @@ ("a" :> 97) @@ ("b" :> 98) @@ ("c" :> 99) @@ ("d" :> 100)
    @@ ("e" :> 101) @@ ("f" :> 102) @@ ("h" :> 104) @@ ("l" :> 108)
    @@ ("m" :> 109) @@ ("n" :> 110) @@ ("o" :> 111) @@ ("p" :> 112)
    @@ ("r" :> 114) @@ ("s" :> 115) @@ ("t" :> 116) @@ ("u" :> 117)
    @@ ("v" :> 118) @@ ("x" :> 120) @@ ("y" :> 121)
    @@ ("{" :> 123) @@ ("}" :> 125) @@ ("~" :> 126)
    @@ [c \in {"xBB"} |-> 187] @@ [c \in {"xBF"} |-> 191]
    @@ [c \in {"xC3"} |-> 195] @@ [c \in {"xA9"} |-> 169]
    @@ [c \in {"xEF"} |-> 239]
    @@ [c \in {"x80"} |-> 128] @@ [c \in {"x90"} |-> 144]
    @@ [c \in {"xF0"} |-> 240]

\* the character with the unsigned char value b
Chr(b) == CHOOSE c \in DOMAIN Code : Code[c] = b

\* tolower
tolower(c) ==
    CASE c = "A" -> "a" [] c = "B" -> "b" [] c = "C" -> "c" [] c = "D" -> "d"
      [] c = "E" -> "e" [] c = "F" -> "f" [] OTHER -> c

DigitChar(d) == <<"0", "1", "2", "3", "4", "5", "6", "7", "8", "9">>[d + 1]

DigitVal(c) == Code[c] - 48

\* sprintf("%d") of a natural number / of an integer
RECURSIVE NatToStr(_)
NatToStr(n) ==
    IF n < 10 THEN <<DigitChar(n)>>
    ELSE NatToStr(n \div 10) \o <<DigitChar(n % 10)>>

IntToStr(n) == IF n < 0 THEN <<"-">> \o NatToStr(-n) ELSE NatToStr(n)

\* the value of a string of digits
RECURSIVE StrToNat(_)
StrToNat(s) ==
    IF s = <<>> THEN 0
    ELSE 10 * StrToNat(SubSeq(s, 1, Len(s) - 1)) + DigitVal(s[Len(s)])

-----------------------------------------------------------------------------
(* The two readings of the bits of union U.                                *)
(* A double is [t |-> "halves", m] (m / 2), [t |-> "den", n] (the          *)
(* subnormal n * 2^-1074, n > 0: the double whose bits are the integer n), *)
(* [t |-> "nan"] (the bits of a negative integer of small magnitude read   *)
(* as a double are a NaN), or [t |-> "dec", ...]: some other double, named *)
(* by the decimal text that denotes it.                                    *)

Halves(m) == [t |-> "halves", m |-> m]

\* item->u.valuedouble
valuedouble(u) ==
    IF u = NULLP THEN Halves(0)
    ELSE IF u.p = "bits" /\ u.w.t = "int"
    THEN (IF u.w.v > 0 THEN [t |-> "den", n |-> u.w.v] ELSE [t |-> "nan"])
    ELSE IF u.p = "bits" /\ u.w.t = "dbl" THEN Halves(u.w.v)
    ELSE IF u.p = "bits" THEN u.w
    ELSE [t |-> "ptr", at |-> u]

\* item->u.valueint; the bits of a double other than a subnormal are an
\* integer of magnitude above 2^52, named by the double
valueint(u) ==
    IF u = NULLP THEN [int |-> 0]
    ELSE IF u.p = "bits" /\ u.w.t = "int" THEN [int |-> u.w.v]
    ELSE [pattern |-> u]

\* the bits of the double d
BitsOfDouble(d) ==
    IF d.t = "halves" THEN DblBits(d.m)
    ELSE IF d.t = "den" THEN IntBits(d.n)
    ELSE Bits(d)

\* (double)item->u.valueint == item->u.valuedouble: only for the zero bits,
\* since a small integer n # 0 read as a double is subnormal or NaN, and
\* the bits of any other double read as an integer exceed it in magnitude
DoubleIsItsInt(u) == u = NULLP

\* compare_double: fabs(a - b) <= max(fabs(a), fabs(b)) * DBL_EPSILON; the
\* doubles of the model differ by more than that unless they are equal,
\* and a NaN compares unequal to everything
compare_double(a, b) == a.t # "nan" /\ b.t # "nan" /\ a = b

\* sprintf("%1.15g") of the subnormals n * 2^-1074 (glibc)
SubnormalText(n) ==
    CASE n = 1 -> <<"4", ".", "9", "4", "0", "6", "5", "6", "4", "5", "8", "4", "1", "2", "4", "7", "e", "-", "3", "2", "4">>
      [] n = 2 -> <<"9", ".", "8", "8", "1", "3", "1", "2", "9", "1", "6", "8", "2", "4", "9", "3", "e", "-", "3", "2", "4">>
      [] n = 3 -> <<"1", ".", "4", "8", "2", "1", "9", "6", "9", "3", "7", "5", "2", "3", "7", "4", "e", "-", "3", "2", "3">>

\* sprintf("%1.15g", d)
FormatG15(d) ==
    IF d.t = "halves"
    THEN LET a == IF d.m < 0 THEN -d.m ELSE d.m
             sign == IF d.m < 0 THEN <<"-">> ELSE <<>>
         IN sign \o NatToStr(a \div 2)
                 \o (IF a % 2 = 1 THEN <<".", "5">> ELSE <<>>)
    ELSE IF d.t = "den" THEN SubnormalText(d.n)
    ELSE d.txt

\* print_number: the characters it appends
print_number(u) ==
    LET d == valuedouble(u) IN
      IF d.t = "nan" THEN <<"n", "u", "l", "l">>
      ELSE IF DoubleIsItsInt(u) THEN IntToStr(valueint(u).int)
      ELSE FormatG15(d)

-----------------------------------------------------------------------------
(* sbJSON.c: the printer.  The printers return [ok, out]: whether they     *)
(* succeeded and the characters they appended to the print buffer, whose   *)
(* allocations succeed.                                                    *)

HexDigit(d) ==
    <<"0", "1", "2", "3", "4", "5", "6", "7", "8", "9",
      "a", "b", "c", "d", "e", "f">>[d + 1]

\* what print_string_ptr writes for the character c
EscapedChar(c) ==
    IF Code[c] > 31 /\ c # "\"" /\ c # "\\" THEN <<c>>
    ELSE CASE c = "\\" -> <<"\\", "\\">>
           [] c = "\"" -> <<"\\", "\"">>
           [] c = "BS" -> <<"\\", "b">>
           [] c = "\f" -> <<"\\", "f">>
           [] c = "\n" -> <<"\\", "n">>
           [] c = "\r" -> <<"\\", "r">>
           [] c = "\t" -> <<"\\", "t">>
           [] OTHER -> <<"\\", "u", "0", "0",
                         HexDigit(Code[c] \div 16), HexDigit(Code[c] % 16)>>

RECURSIVE EscapedString(_)
EscapedString(s) ==
    IF s = <<>> THEN <<>> ELSE EscapedChar(Head(s)) \o EscapedString(Tail(s))

\* print_string_ptr: "" for NULL, else the escaped string in quotes
print_string_ptr(input) ==
    IF input = NULLP THEN <<"\"", "\"">>
    ELSE <<"\"">> \o EscapedString(input.s) \o <<"\"">>

Tabs(n) == [i \in 1..n |-> "\t"]

Failed == [ok |-> FALSE, out |-> <<>>]

RECURSIVE print_value(_, _, _, _), print_elements(_, _, _, _),
          print_members(_, _, _, _)
\* print_value: by item->type; depth is output_buffer->depth
print_value(h, item, depth, format) ==
    IF item = NULL THEN Failed
    ELSE
      LET n == h[item] IN
      CASE n.type = "NULL" -> [ok |-> TRUE, out |-> <<"n", "u", "l", "l">>]
        [] n.type = "False" -> [ok |-> TRUE, out |-> <<"f", "a", "l", "s", "e">>]
        [] n.type = "True" -> [ok |-> TRUE, out |-> <<"t", "r", "u", "e">>]
        [] n.type = "Number" -> [ok |-> TRUE, out |-> print_number(n.u)]
        [] n.type = "Raw" ->
             IF n.u = NULLP THEN Failed ELSE [ok |-> TRUE, out |-> n.u.s]
        [] n.type = "String" -> [ok |-> TRUE, out |-> print_string_ptr(n.u)]
        [] n.type = "Array" ->
             \* print_array
             LET e == print_elements(h, n.child, depth + 1, format) IN
               IF e.ok THEN [ok |-> TRUE, out |-> <<"[">> \o e.out \o <<"]">>]
               ELSE Failed
        [] n.type = "Object" ->
             \* print_object
             LET m == print_members(h, n.child, depth + 1, format) IN
               IF m.ok
               THEN [ok |-> TRUE,
                     out |-> <<"{">> \o (IF format THEN <<"\n">> ELSE <<>>)
                               \o m.out
                               \o (IF format THEN Tabs(depth) ELSE <<>>)
                               \o <<"}">>]
               ELSE Failed
        [] OTHER -> Failed

\* the loop of print_array over the elements from current_element
print_elements(h, current_element, depth, format) ==
    IF current_element = NULL THEN [ok |-> TRUE, out |-> <<>>]
    ELSE
      LET v == print_value(h, current_element, depth, format)
          sep == IF h[current_element].next # NULL
                 THEN <<",">> \o (IF format THEN <<" ">> ELSE <<>>)
                 ELSE <<>>
          rest == print_elements(h, h[current_element].next, depth, format)
      IN IF v.ok /\ rest.ok
         THEN [ok |-> TRUE, out |-> v.out \o sep \o rest.out]
         ELSE Failed

\* the loop of print_object over the members from current_item
print_members(h, current_item, depth, format) ==
    IF current_item = NULL THEN [ok |-> TRUE, out |-> <<>>]
    ELSE
      LET v == print_value(h, current_item, depth, format)
          rest == print_members(h, h[current_item].next, depth, format)
      IN IF v.ok /\ rest.ok
         THEN [ok |-> TRUE,
               out |-> (IF format THEN Tabs(depth) ELSE <<>>)
                         \o print_string_ptr(h[current_item].string)
                         \o <<":">> \o (IF format THEN <<"\t">> ELSE <<>>)
                         \o v.out
                         \o (IF h[current_item].next # NULL THEN <<",">> ELSE <<>>)
                         \o (IF format THEN <<"\n">> ELSE <<>>)
                         \o rest.out]
         ELSE Failed

\* print: the printed text, or ok = FALSE where print returns NULL
print(h, item, format) == print_value(h, item, 0, format)

sbJSON_Print(h, item) == print(h, item, TRUE)

sbJSON_PrintUnformatted(h, item) == print(h, item, FALSE)

-----------------------------------------------------------------------------
(* sbJSON.c: the parser.  A parse_buffer is [content, length, offset,      *)
(* depth]; the model adds trace, the offsets and depths the parse went     *)
(* through, and freed, the blocks the failure paths deallocated.  A parse  *)
(* function returns [ok, h, pb].                                           *)

can_read(pb, size) == pb.offset + size <= pb.length

can_access_at_index(pb, index) == pb.offset + index < pb.length

cannot_access_at_index(pb, index) == ~can_access_at_index(pb, index)

\* content[i] of C (0-based); a read past the end of the caller's memory
\* yields OOB, a byte that is no character of JSON
ByteAt(content, i) ==
    IF i >= 0 /\ i < Len(content) THEN content[i + 1] ELSE "OOB"

\* buffer_at_offset(buffer)[index]
At(pb, index) == ByteAt(pb.content, pb.offset + index)

\* strncmp(buffer_at_offset(buffer), literal, Len(literal)) == 0
StartsWith(pb, literal) ==
    \A i \in 1..Len(literal) : At(pb, i - 1) = literal[i]

\* the loop of buffer_skip_whitespace: the first offset from off on that
\* cannot be accessed or holds a byte above 32
RECURSIVE SkipFrom(_, _, _)
SkipFrom(content, length, off) ==
    IF off < length /\ Code[ByteAt(content, off)] <= 32
    THEN SkipFrom(content, length, off + 1)
    ELSE off

buffer_skip_whitespace(pb) ==
    IF cannot_access_at_index(pb, 0) THEN pb
    ELSE LET off == SkipFrom(pb.content, pb.length, pb.offset)
         IN [pb EXCEPT !.offset = IF off = pb.length THEN off - 1 ELSE off]

skip_utf8_bom(pb) ==
    IF can_access_at_index(pb, 4) /\ StartsWith(pb, <<"xEF", "xBB", "xBF">>)
    THEN [pb EXCEPT !.offset = @ + 3]
    ELSE pb

NumberChars == Digits \cup {"+", "-", "e", "E", "."}

\* the length of the longest prefix of s made of characters of S
RECURSIVE PrefixIn(_, _)
PrefixIn(s, S) ==
    IF s # <<>> /\ Head(s) \in S THEN 1 + PrefixIn(Tail(s), S) ELSE 0

Drop(s, n) == SubSeq(s, n + 1, Len(s))

Take(s, n) == SubSeq(s, 1, n)

\* the decimal digits of LLONG_MAX and of the magnitude of LLONG_MIN
LLONG_MAX_digits ==
    <<"9", "2", "2", "3", "3", "7", "2", "0", "3", "6", "8", "5", "4", "7", "7",
      "5", "8", "0", "7">>

LLONG_MIN_digits ==
    <<"9", "2", "2", "3", "3", "7", "2", "0", "3", "6", "8", "5", "4", "7", "7",
      "5", "8", "0", "8">>

\* digits without its leading zeros
RECURSIVE StripLeadingZeros(_)
StripLeadingZeros(digits) ==
    IF digits # <<>> /\ Head(digits) = "0" THEN StripLeadingZeros(Tail(digits))
    ELSE digits

\* the number digits denotes is above the one limit denotes (neither has a
\* leading zero)
DigitsAbove(digits, limit) ==
    \/ Len(digits) > Len(limit)
    \/ /\ Len(digits) = Len(limit)
       /\ \E i \in 1..Len(digits) :
             /\ DigitVal(digits[i]) > DigitVal(limit[i])
             /\ \A j \in 1..(i - 1) : digits[j] = limit[j]

\* the bits of the int64_t of magnitude digits, negative or not; one of ten
\* digits or more is named by its digits
Int64Bits(negative, digits) ==
    IF Len(digits) <= 9
    THEN IntBits(IF negative THEN -StrToNat(digits) ELSE StrToNat(digits))
    ELSE Bits([t |-> "big", negative |-> negative, digits |-> digits])

\* the int64_t strtoll returns for the sign and the digits: LLONG_MAX or
\* LLONG_MIN when the value is out of range
Saturated(negative, digits) ==
    IF ~negative /\ DigitsAbove(digits, LLONG_MAX_digits)
    THEN Int64Bits(FALSE, LLONG_MAX_digits)
    ELSE IF negative /\ DigitsAbove(digits, LLONG_MIN_digits)
    THEN Int64Bits(TRUE, LLONG_MIN_digits)
    ELSE Int64Bits(negative, digits)

\* strtoll(s, &after_end, 10) on a string of NumberChars:
\* [end |-> after_end - s, bits |-> the bits of the int64_t returned]
strtoll(s) ==
    LET signed == s # <<>> /\ Head(s) \in {"+", "-"}
        body == IF signed THEN Tail(s) ELSE s
        nd == PrefixIn(body, Digits)
    IN IF nd = 0 THEN [end |-> 0, bits |-> NULLP]
       ELSE [end |-> nd + (IF signed THEN 1 ELSE 0),
             bits |-> Saturated(signed /\ Head(s) = "-",
                                StripLeadingZeros(Take(body, nd)))]

\* s without its trailing zeros
RECURSIVE StripZeros(_)
StripZeros(s) ==
    IF s # <<>> /\ s[Len(s)] = "0" THEN StripZeros(Take(s, Len(s) - 1)) ELSE s

\* strtod(s, &after_end) on a string of NumberChars: [end, bits]
strtod(s) ==
    LET signed == s # <<>> /\ Head(s) \in {"+", "-"}
        neg == signed /\ Head(s) = "-"
        s1 == IF signed THEN Tail(s) ELSE s
        \* the double with integer part ipart and fraction digits frac
        \* (trailing zeros removed), the exponent being zero or not
        Value(ipart, frac, expzero, text) ==
            IF expzero /\ frac = <<>>
            THEN (IF neg /\ ipart = 0 THEN [t |-> "dec", txt |-> <<"-", "0">>]
                  ELSE Halves(IF neg THEN -(2 * ipart) ELSE 2 * ipart))
            ELSE IF expzero /\ frac = <<"5">>
            THEN Halves(IF neg THEN -(2 * ipart + 1) ELSE 2 * ipart + 1)
            ELSE IF \E n \in 1..3 : text = SubnormalText(n)
            THEN [t |-> "den", n |-> CHOOSE n \in 1..3 : text = SubnormalText(n)]
            ELSE [t |-> "dec", txt |-> text]
        \* ni integer digits, then s2; nf fraction digits after a dot; ne
        \* exponent digits, the digits of s4, after "e" and a sign if esign
        Exponent(ni, s2, dot, nf, esign, s4, ne) ==
            LET nexp == IF ne = 0 THEN 0 ELSE ne + (IF esign THEN 2 ELSE 1)
                end == (IF signed THEN 1 ELSE 0) + ni
                         + (IF dot THEN nf + 1 ELSE 0) + nexp
            IN IF ni + nf = 0 THEN [end |-> 0, bits |-> NULLP]
               ELSE [end |-> end,
                     bits |-> BitsOfDouble(
                         Value(StrToNat(Take(s1, ni)),
                               StripZeros(IF dot THEN Take(Tail(s2), nf) ELSE <<>>),
                               ne = 0 \/ StrToNat(Take(s4, ne)) = 0,
                               Take(s, end)))]
        ExponentDigits(ni, s2, dot, nf, esign, s4) ==
            Exponent(ni, s2, dot, nf, esign, s4, PrefixIn(s4, Digits))
        Fraction(ni, s2, dot, nf) ==
            LET s3 == IF dot THEN Drop(s2, nf + 1) ELSE s2
                esign == Len(s3) >= 2 /\ s3[1] \in {"e", "E"}
                           /\ s3[2] \in {"+", "-"}
            IN ExponentDigits(ni, s2, dot, nf, esign,
                              IF s3 # <<>> /\ s3[1] \in {"e", "E"}
                              THEN Drop(s3, IF esign THEN 2 ELSE 1) ELSE <<>>)
        FractionDigits(ni, s2) ==
            LET dot == s2 # <<>> /\ Head(s2) = "."
            IN Fraction(ni, s2, dot,
                        IF dot THEN PrefixIn(Tail(s2), Digits) ELSE 0)
        IntegerDigits(ni) == FractionDigits(ni, Drop(s1, ni))
    IN IntegerDigits(PrefixIn(s1, Digits))

\* parse_number
parse_number(h, item, pb) ==
    LET avail == pb.length - pb.offset
        most == IF avail < 63 THEN avail ELSE 63
        \* sbJSON_SetDoubleNumber / sbJSON_SetIntegerNumber and the return
        Set(conv, decimal_number) ==
            LET h1 == [h EXCEPT ![item].u = conv.bits,
                                ![item].is_number_double = decimal_number]
            IN IF conv.end = 0 THEN [ok |-> FALSE, h |-> h1, pb |-> pb]
               ELSE [ok |-> TRUE, h |-> [h1 EXCEPT ![item].type = "Number"],
                     pb |-> [pb EXCEPT !.offset = @ + conv.end]]
        Convert(number_c_string, decimal_number) ==
            Set(IF decimal_number THEN strtod(number_c_string)
                ELSE strtoll(number_c_string), decimal_number)
        Copied(number_c_string) ==
            Convert(number_c_string, "." \in Range(number_c_string))
        Copy(i) == Copied(SubSeq(pb.content, pb.offset + 1, pb.offset + i))
    IN Copy(PrefixIn(SubSeq(pb.content, pb.offset + 1, pb.offset + most),
                     NumberChars))

\* the value of a hexadecimal digit, or -1
HexVal(c) ==
    LET Of(b) == IF b >= 48 /\ b <= 57 THEN b - 48
                 ELSE IF b >= 65 /\ b <= 70 THEN 10 + b - 65
                 ELSE IF b >= 97 /\ b <= 102 THEN 10 + b - 97
                 ELSE -1
    IN IF c \in DOMAIN Code THEN Of(Code[c]) ELSE -1

\* parse_hex4 of the four bytes of content from index i: 0 when one of them
\* is no hexadecimal digit
parse_hex4(content, i) ==
    LET v == [k \in 0..3 |-> HexVal(ByteAt(content, i + k))] IN
      IF \E k \in 0..3 : v[k] < 0 THEN 0
      ELSE ((v[0] * 16 + v[1]) * 16 + v[2]) * 16 + v[3]

\* the UTF-8 encoding of codepoint, as utf16_literal_to_utf8 writes it
Utf8(codepoint) ==
    LET bytes ==
          IF codepoint < 128 THEN <<codepoint % 128>>
          ELSE IF codepoint < 2048
          THEN <<192 + (codepoint \div 64), 128 + (codepoint % 64)>>
          ELSE IF codepoint < 65536
          THEN <<224 + (codepoint \div 4096),
                 128 + ((codepoint \div 64) % 64), 128 + (codepoint % 64)>>
          ELSE <<240 + (codepoint \div 262144),
                 128 + ((codepoint \div 4096) % 64),
                 128 + ((codepoint \div 64) % 64), 128 + (codepoint % 64)>>
    IN [i \in DOMAIN bytes |-> Chr(bytes[i])]

\* utf16_literal_to_utf8 of the literal at index input_pointer (its
\* backslash) in a string that ends before index input_end:
\* [len |-> sequence_length or 0, out |-> the bytes written]
utf16_literal_to_utf8(content, input_pointer, input_end) ==
    LET second == input_pointer + 6
        fail == [len |-> 0, out |-> <<>>]
        Surrogates(first_code, second_code) ==
            IF second_code < 56320 \/ second_code > 57343 THEN fail
            ELSE [len |-> 12,
                  out |-> Utf8(65536 + (first_code % 1024) * 1024
                                     + (second_code % 1024))]
        First(first_code) ==
            IF first_code >= 56320 /\ first_code <= 57343 THEN fail
            ELSE IF first_code >= 55296 /\ first_code <= 56319
            THEN IF input_end - second < 6 THEN fail
                 ELSE IF ByteAt(content, second) # "\\"
                         \/ ByteAt(content, second + 1) # "u" THEN fail
                 ELSE Surrogates(first_code, parse_hex4(content, second + 2))
            ELSE [len |-> 6, out |-> Utf8(first_code)]
    IN IF input_end - input_pointer < 6 THEN fail
       ELSE First(parse_hex4(content, input_pointer + 2))

\* the first loop of parse_string from index input_end: the index of the
\* closing quote, or -1 where the loop runs into `goto fail'
RECURSIVE ScanString(_, _, _)
ScanString(content, length, input_end) ==
    IF input_end < length /\ ByteAt(content, input_end) # "\""
    THEN IF ByteAt(content, input_end) = "\\"
         THEN IF input_end + 1 >= length THEN -1
              ELSE ScanString(content, length, input_end + 2)
         ELSE ScanString(content, length, input_end + 1)
    ELSE IF input_end >= length THEN -1
    ELSE input_end

\* the bytes written for one character or escape sequence, then the rest
\* of the loop
Written(bytes, rest) ==
    [ok |-> rest.ok, out |-> bytes \o rest.out, at |-> rest.at]

\* the second loop of parse_string from index input_pointer:
\* [ok, out |-> the bytes written, at |-> input_pointer when it ends]
RECURSIVE DecodeString(_, _, _)
\* an escape sequence of len bytes that stands for the bytes one
Escape(content, input_pointer, input_end, one, len) ==
    IF len = 0 THEN [ok |-> FALSE, out |-> <<>>, at |-> input_pointer]
    ELSE Written(one, DecodeString(content, input_pointer + len, input_end))

\* a \u escape, u what utf16_literal_to_utf8 returns
EscapeLiteral(content, input_pointer, input_end, u) ==
    Escape(content, input_pointer, input_end, u.out, u.len)

DecodeString(content, input_pointer, input_end) ==
    IF input_pointer >= input_end
    THEN [ok |-> TRUE, out |-> <<>>, at |-> input_pointer]
    ELSE
      LET c == ByteAt(content, input_pointer)
          e == ByteAt(content, input_pointer + 1)
          one == CASE e = "b" -> <<"BS">>
                   [] e = "f" -> <<"\f">>
                   [] e = "n" -> <<"\n">>
                   [] e = "r" -> <<"\r">>
                   [] e = "t" -> <<"\t">>
                   [] OTHER -> <<e>>
      IN IF c # "\\"
         THEN Written(<<c>>, DecodeString(content, input_pointer + 1, input_end))
         ELSE IF e = "u"
         THEN EscapeLiteral(content, input_pointer, input_end,
                            utf16_literal_to_utf8(content, input_pointer,
                                                  input_end))
         ELSE Escape(content, input_pointer, input_end, one,
                     IF e \in {"b", "f", "n", "r", "t", "\"", "\\", "/"}
                     THEN 2 ELSE 0)

\* a C string ends at its first NUL
CString(bytes) == Take(bytes, PrefixIn(bytes, (DOMAIN Code) \ {"NUL"}))

\* parse_string
parse_string(h, item, pb) ==
    LET start == pb.offset + 1
        Decoded(input_end, d) ==
            IF ~d.ok
            THEN [ok |-> FALSE, h |-> h, pb |-> [pb EXCEPT !.offset = d.at]]
            ELSE [ok |-> TRUE,
                  h |-> [h EXCEPT ![item].type = "String",
                                  ![item].u = [p |-> "str", s |-> CString(d.out),
                                               own |-> "heap"]],
                  pb |-> [pb EXCEPT !.offset = input_end + 1]]
        Scanned(input_end) ==
            IF At(pb, 0) # "\"" \/ input_end < 0
            THEN [ok |-> FALSE, h |-> h, pb |-> [pb EXCEPT !.offset = start]]
            ELSE Decoded(input_end, DecodeString(pb.content, start, input_end))
    IN Scanned(ScanString(pb.content, pb.length, start))

\* the nesting limit parse_array and parse_object test the depth against
\* (CJSON_NESTING_LIMIT, which the build supplies)
CJSON_NESTING_LIMIT == 3

\* the parse went through point e: trace records the offset, the depth
\* counter and open, the number of containers whose opening bracket has
\* been consumed and whose closing bracket has not
Mark(pb, e) ==
    [pb EXCEPT !.trace = Append(@, [e |-> e, offset |-> pb.offset,
                                    depth |-> pb.depth, open |-> pb.open])]

\* the label `fail' of parse_array and parse_object: deletes the items
\* parsed so far
ContainerFail(h, pb, head) ==
    LET d == sbJSON_Delete(h, head) IN
      [ok |-> FALSE, h |-> d.h,
       pb |-> Mark([pb EXCEPT !.freed = @ \o d.freed], "fail")]

\* the label `success' of parse_array (type = "Array", closing "]") and of
\* parse_object (type = "Object", closing "}")
ContainerSuccess(h, item, pb, head, current_item, type) ==
    LET h1 == IF head # NULL THEN [h EXCEPT ![head].prev = current_item] ELSE h
    IN [ok |-> TRUE,
        h |-> [h1 EXCEPT ![item].type = type, ![item].child = head],
        pb |-> Mark([pb EXCEPT !.depth = @ - 1, !.open = @ - 1,
                               !.offset = @ + 1], "close")]

\* the allocation of the next item of a container and its linking after
\* current_item: [h, head, current_item]
NextItem(h, head, current_item) ==
    LET n == sbJSON_New_Item(h) IN
      IF head = NULL THEN [h |-> n.h, head |-> n.r, current_item |-> n.r]
      ELSE [h |-> [n.h EXCEPT ![current_item].next = n.r,
                              ![n.r].prev = current_item],
            head |-> head, current_item |-> n.r]

RECURSIVE parse_value(_, _, _), parse_array(_, _, _), parse_object(_, _, _),
          ArrayLoop(_, _, _, _), ObjectLoop(_, _, _, _)
\* parse_value
parse_value(h, item, pb0) ==
    LET pb == Mark(pb0, "value") IN
      IF can_read(pb, 4) /\ StartsWith(pb, <<"n", "u", "l", "l">>)
      THEN [ok |-> TRUE, h |-> [h EXCEPT ![item].type = "NULL"],
            pb |-> [pb EXCEPT !.offset = @ + 4]]
      ELSE IF can_read(pb, 5) /\ StartsWith(pb, <<"f", "a", "l", "s", "e">>)
      THEN [ok |-> TRUE, h |-> [h EXCEPT ![item].type = "False"],
            pb |-> [pb EXCEPT !.offset = @ + 5]]
      ELSE IF can_read(pb, 4) /\ StartsWith(pb, <<"t", "r", "u", "e">>)
      THEN [ok |-> TRUE, h |-> [h EXCEPT ![item].type = "True"],
            pb |-> [pb EXCEPT !.offset = @ + 4]]
      ELSE IF can_access_at_index(pb, 0) /\ At(pb, 0) = "\""
      THEN parse_string(h, item, pb)
      ELSE IF can_access_at_index(pb, 0)
              /\ (At(pb, 0) = "-" \/ At(pb, 0) \in Digits)
      THEN parse_number(h, item, pb)
      ELSE IF can_access_at_index(pb, 0) /\ At(pb, 0) = "["
      THEN parse_array(h, item, pb)
      ELSE IF can_access_at_index(pb, 0) /\ At(pb, 0) = "{"
      THEN parse_object(h, item, pb)
      ELSE [ok |-> FALSE, h |-> h, pb |-> pb]

\* parse_array after its loop l over the elements
ArrayClose(item, l) ==
    IF ~l.ok THEN ContainerFail(l.h, l.pb, l.head)
    ELSE IF cannot_access_at_index(l.pb, 0) \/ At(l.pb, 0) # "]"
    THEN ContainerFail(l.h, l.pb, l.head)
    ELSE ContainerSuccess(l.h, item, l.pb, l.head, l.current_item, "Array")

\* parse_array from the test of the bracket on, the depth incremented
ArrayOpen(h, item, pb1) ==
    LET pb2 == Mark(buffer_skip_whitespace(
                      [pb1 EXCEPT !.offset = @ + 1, !.open = @ + 1]), "open")
    IN IF At(pb1, 0) # "[" THEN ContainerFail(h, pb1, NULL)
       ELSE IF can_access_at_index(pb2, 0) /\ At(pb2, 0) = "]"
       THEN ContainerSuccess(h, item, pb2, NULL, NULL, "Array")
       ELSE IF cannot_access_at_index(pb2, 0)
       THEN ContainerFail(h, [pb2 EXCEPT !.offset = @ - 1], NULL)
       ELSE ArrayClose(item, ArrayLoop(h, [pb2 EXCEPT !.offset = @ - 1],
                                       NULL, NULL))

\* parse_array without the test of the depth
parse_array_no_limit(h, item, pb0) ==
    ArrayOpen(h, item, [pb0 EXCEPT !.depth = @ + 1])

\* parse_array
parse_array(h, item, pb0) ==
    IF pb0.depth >= CJSON_NESTING_LIMIT
    THEN [ok |-> FALSE, h |-> h, pb |-> Mark(pb0, "limit")]
    ELSE ArrayOpen(h, item, [pb0 EXCEPT !.depth = @ + 1])

\* the do-while loop of parse_array after the value v of the item n.current_item
ArraySeparator(n, v) ==
    LET pb3 == buffer_skip_whitespace(v.pb) IN
      IF ~v.ok
      THEN [ok |-> FALSE, h |-> v.h, pb |-> v.pb, head |-> n.head,
            current_item |-> n.current_item]
      ELSE IF can_access_at_index(pb3, 0) /\ At(pb3, 0) = ","
      THEN ArrayLoop(v.h, pb3, n.head, n.current_item)
      ELSE [ok |-> TRUE, h |-> v.h, pb |-> pb3, head |-> n.head,
            current_item |-> n.current_item]

\* the do-while loop of parse_array after the allocation n of the item
ArrayElement(pb, n) ==
    ArraySeparator(n, parse_value(n.h, n.current_item,
                                  buffer_skip_whitespace(
                                    [pb EXCEPT !.offset = @ + 1])))

\* the do-while loop of parse_array: [ok |-> no `goto fail', h, pb, head,
\* current_item]
ArrayLoop(h, pb, head, current_item) ==
    ArrayElement(pb, NextItem(h, head, current_item))

\* parse_object after its loop l over the members
ObjectClose(item, l) ==
    IF ~l.ok THEN ContainerFail(l.h, l.pb, l.head)
    ELSE IF cannot_access_at_index(l.pb, 0) \/ At(l.pb, 0) # "}"
    THEN ContainerFail(l.h, l.pb, l.head)
    ELSE ContainerSuccess(l.h, item, l.pb, l.head, l.current_item, "Object")

\* parse_object from the test of the brace on, the depth incremented
ObjectOpen(h, item, pb1) ==
    LET pb2 == Mark(buffer_skip_whitespace(
                      [pb1 EXCEPT !.offset = @ + 1, !.open = @ + 1]), "open")
    IN IF cannot_access_at_index(pb1, 0) \/ At(pb1, 0) # "{"
       THEN ContainerFail(h, pb1, NULL)
       ELSE IF can_access_at_index(pb2, 0) /\ At(pb2, 0) = "}"
       THEN ContainerSuccess(h, item, pb2, NULL, NULL, "Object")
       ELSE IF cannot_access_at_index(pb2, 0)
       THEN ContainerFail(h, [pb2 EXCEPT !.offset = @ - 1], NULL)
       ELSE ObjectClose(item, ObjectLoop(h, [pb2 EXCEPT !.offset = @ - 1],
                                         NULL, NULL))

\* parse_object
parse_object(h, item, pb0) ==
    IF pb0.depth >= CJSON_NESTING_LIMIT
    THEN [ok |-> FALSE, h |-> h, pb |-> Mark(pb0, "limit")]
    ELSE ObjectOpen(h, item, [pb0 EXCEPT !.depth = @ + 1])

\* what the do-while loop of parse_object returns
ObjectLoopResult(n, ok, h, pb) ==
    [ok |-> ok, h |-> h, pb |-> pb, head |-> n.head,
     current_item |-> n.current_item]

\* the do-while loop of parse_object after the value v of the member
ObjectSeparator(n, v) ==
    LET pb3 == buffer_skip_whitespace(v.pb) IN
      IF ~v.ok THEN ObjectLoopResult(n, FALSE, v.h, v.pb)
      ELSE IF can_access_at_index(pb3, 0) /\ At(pb3, 0) = ","
      THEN ObjectLoop(v.h, pb3, n.head, n.current_item)
      ELSE ObjectLoopResult(n, TRUE, v.h, pb3)

\* the do-while loop of parse_object after the name k of the member: the
\* name parsed into valuestring is moved to string
ObjectColon(n, k) ==
    LET pbk == buffer_skip_whitespace(k.pb)
        hk == [k.h EXCEPT ![n.current_item].string = k.h[n.current_item].u,
                          ![n.current_item].u = NULLP]
    IN IF ~k.ok THEN ObjectLoopResult(n, FALSE, k.h, k.pb)
       ELSE IF cannot_access_at_index(pbk, 0) \/ At(pbk, 0) # ":"
       THEN ObjectLoopResult(n, FALSE, hk, pbk)
       ELSE ObjectSeparator(n, parse_value(hk, n.current_item,
                                           buffer_skip_whitespace(
                                             [pbk EXCEPT !.offset = @ + 1])))

\* the do-while loop of parse_object after the allocation n of the item
ObjectName(pb, n) ==
    ObjectColon(n, parse_string(n.h, n.current_item,
                                buffer_skip_whitespace(
                                  [pb EXCEPT !.offset = @ + 1])))

\* the do-while loop of parse_object
ObjectLoop(h, pb, head, current_item) ==
    ObjectName(pb, NextItem(h, head, current_item))

\* a parse_buffer of zeros
ZeroBuffer ==
    [content |-> <<>>, length |-> 0, offset |-> 0, depth |-> 0, open |-> 0,
     trace |-> <<>>, freed |-> <<>>]

\* the label `fail' of sbJSON_ParseWithLengthOpts without the call of
\* sbJSON_Delete
ParseFail_no_delete(h, item, pb) ==
    LET position == IF pb.offset < pb.length THEN pb.offset
                    ELSE IF pb.length > 0 THEN pb.length - 1
                    ELSE 0
    IN [h |-> h, r |-> NULL, pb |-> pb, position |-> position,
        parse_end |-> position]

\* the label `fail' of sbJSON_ParseWithLengthOpts
ParseFail(h, item, pb) ==
    LET d == sbJSON_Delete(h, item)
        position == IF pb.offset < pb.length THEN pb.offset
                    ELSE IF pb.length > 0 THEN pb.length - 1
                    ELSE 0
    IN [h |-> d.h, r |-> NULL, pb |-> [pb EXCEPT !.freed = @ \o d.freed],
        position |-> position, parse_end |-> position]

\* sbJSON_ParseWithLengthOpts after parse_value has returned v for the
\* item n.r
ParseEnd(n, v, require_null_terminated) ==
    LET pbt == buffer_skip_whitespace(v.pb) IN
      IF ~v.ok THEN ParseFail(v.h, n.r, v.pb)
      ELSE IF require_null_terminated
      THEN IF pbt.offset >= pbt.length \/ At(pbt, 0) # "NUL"
           THEN ParseFail(v.h, n.r, pbt)
           ELSE [h |-> v.h, r |-> n.r, pb |-> pbt, position |-> 0,
                 parse_end |-> pbt.offset]
      ELSE [h |-> v.h, r |-> n.r, pb |-> v.pb, position |-> 0,
            parse_end |-> v.pb.offset]

\* sbJSON_ParseWithLengthOpts after the allocation n of the item
ParseItem(n, buffer, require_null_terminated) ==
    ParseEnd(n, parse_value(n.h, n.r,
                            buffer_skip_whitespace(skip_utf8_bom(buffer))),
             require_null_terminated)

\* sbJSON_ParseWithLengthOpts on value, NULLP or a pointer to the bytes
\* value.s: [h, r |-> the tree or NULL, pb, position |-> global_error.position,
\*  parse_end |-> the offset *return_parse_end points at]
sbJSON_ParseWithLengthOpts(h, value, buffer_length, require_null_terminated) ==
    IF value = NULLP
    THEN [h |-> h, r |-> NULL, pb |-> ZeroBuffer, position |-> 0,
          parse_end |-> 0]
    ELSE IF buffer_length = 0 THEN ParseFail(h, NULL, ZeroBuffer)
    ELSE ParseItem(sbJSON_New_Item(h),
                   [ZeroBuffer EXCEPT !.content = value.s,
                                      !.length = buffer_length],
                   require_null_terminated)

\* sbJSON_ParseWithOpts: the buffer is the string with its terminating NUL
sbJSON_ParseWithOpts(h, value, require_null_terminated) ==
    IF value = NULLP
    THEN sbJSON_ParseWithLengthOpts(h, NULLP, 0, require_null_terminated)
    ELSE sbJSON_ParseWithLengthOpts(h, [value EXCEPT !.s = @ \o <<"NUL">>],
                                    Len(value.s) + 1, require_null_terminated)

sbJSON_Parse(h, value) == sbJSON_ParseWithOpts(h, value, FALSE)

sbJSON_ParseWithLength(h, value, buffer_length) ==
    sbJSON_ParseWithLengthOpts(h, value, buffer_length, FALSE)

-----------------------------------------------------------------------------
(* sbJSON.c: comparison.                                                   *)

\* strcmp(a, b) == 0
StrEq(a, b) == a.s = b.s

\* case_insensitive_strcmp(string1, string2) == 0
case_insensitive_equal(string1, string2) ==
    /\ string1 # NULLP
    /\ string2 # NULLP
    /\ Len(string1.s) = Len(string2.s)
    /\ \A i \in 1..Len(string1.s) : tolower(string1.s[i]) = tolower(string2.s[i])

\* get_object_item: the first member from current_element on whose key
\* matches name; the case-sensitive loop stops at a member without a key
RECURSIVE FindMember(_, _, _, _)
FindMember(h, current_element, name, case_sensitive) ==
    IF current_element = NULL THEN NULL
    ELSE IF case_sensitive
    THEN IF h[current_element].string = NULLP THEN NULL
         ELSE IF StrEq(name, h[current_element].string) THEN current_element
         ELSE FindMember(h, h[current_element].next, name, case_sensitive)
    ELSE IF case_insensitive_equal(name, h[current_element].string)
         THEN current_element
         ELSE FindMember(h, h[current_element].next, name, case_sensitive)

get_object_item(h, object, name, case_sensitive) ==
    IF object = NULL \/ name = NULLP THEN NULL
    ELSE FindMember(h, h[object].child, name, case_sensitive)

sbJSON_GetObjectItem(h, object, string) ==
    get_object_item(h, object, string, FALSE)

sbJSON_GetObjectItemCaseSensitive(h, object, string) ==
    get_object_item(h, object, string, TRUE)

ValidTypes ==
    {"False", "True", "NULL", "Number", "String", "Raw", "Array", "Object"}

RECURSIVE sbJSON_Compare(_, _, _, _), CompareElements(_, _, _, _),
          CompareMembers(_, _, _, _)
\* sbJSON_Compare
sbJSON_Compare(h, a, b, case_sensitive) ==
    IF a = NULL \/ b = NULL THEN FALSE
    ELSE IF h[a].type # h[b].type THEN FALSE
    ELSE IF h[a].type \notin ValidTypes THEN FALSE
    ELSE IF a = b THEN TRUE
    ELSE
      CASE h[a].type \in {"False", "True", "NULL"} -> TRUE
        [] h[a].type = "Number" ->
             IF h[a].is_number_double # h[b].is_number_double THEN FALSE
             ELSE IF h[a].is_number_double
             THEN compare_double(valuedouble(h[a].u), valuedouble(h[b].u))
             ELSE valueint(h[a].u) = valueint(h[b].u)
        [] h[a].type \in {"String", "Raw"} ->
             IF h[a].u = NULLP \/ h[b].u = NULLP THEN FALSE
             ELSE StrEq(h[a].u, h[b].u)
        [] h[a].type = "Array" ->
             CompareElements(h, h[a].child, h[b].child, case_sensitive)
        [] h[a].type = "Object" ->
             /\ CompareMembers(h, h[a].child, b, case_sensitive)
             /\ CompareMembers(h, h[b].child, a, case_sensitive)

\* the loop over the elements of two arrays without the test that both
\* lists ended together
CompareElements_prefix(h, a_element, b_element, case_sensitive) ==
    IF a_element # NULL /\ b_element # NULL
    THEN /\ sbJSON_Compare(h, a_element, b_element, case_sensitive)
         /\ CompareElements(h, h[a_element].next, h[b_element].next,
                            case_sensitive)
    ELSE TRUE

\* the loop over the elements of two arrays
CompareElements(h, a_element, b_element, case_sensitive) ==
    IF a_element # NULL /\ b_element # NULL
    THEN /\ sbJSON_Compare(h, a_element, b_element, case_sensitive)
         /\ CompareElements(h, h[a_element].next, h[b_element].next,
                            case_sensitive)
    ELSE a_element = b_element

\* the loop over the members from element on, each looked up in other and
\* compared with what the lookup returns
CompareMembers(h, element, other, case_sensitive) ==
    IF element = NULL THEN TRUE
    ELSE LET found == get_object_item(h, other, h[element].string, case_sensitive)
         IN /\ found # NULL
            /\ sbJSON_Compare(h, element, found, case_sensitive)
            /\ CompareMembers(h, h[element].next, other, case_sensitive)

-----------------------------------------------------------------------------
(* Printing a tree and parsing the text back.                              *)

\* the arrays and objects of the round-trip inputs have at most this many
\* items
MaxRoundTripWidth == 2

RoundTripLeaves ==
    {VNull, VTrue, VFalse, VInt(0), VInt(1), VDbl(1), VDbl(3), VStr(KeyA),
     VStr(<<"a", "\"", "\n">>)}

RoundTripArrays == {VArr(s) : s \in SeqUpTo(RoundTripLeaves, MaxRoundTripWidth)}

RoundTripObjects ==
    {VObj(<<Member(KeyA, v)>>) : v \in RoundTripLeaves \cup {VArr(<<>>)}}
      \cup {VObj(<<Member(KeyA, v), Member(KeyB, w)>>) :
               v \in {VNull, VStr(KeyA)}, w \in {VInt(0), VArr(<<VTrue>>)}}
      \cup {VObj(<<>>)}

RoundTripInputs ==
    RoundTripLeaves \cup RoundTripArrays \cup RoundTripObjects
      \cup {VArr(<<v>>) : v \in RoundTripObjects}

RoundTripInit ==
    /\ \E v \in RoundTripInputs, format \in BOOLEAN :
         LET b == BuildTree(<<>>, v) IN
           /\ heap = b.h
           /\ last = [op |-> "BuildTree", r |-> b.r, format |-> format]
    /\ kids = <<>>
    /\ detached = {}
    /\ freed = <<>>
    /\ pc = "built"

\* text = format ? sbJSON_Print(v) : sbJSON_PrintUnformatted(v)
RoundTripPrint ==
    /\ pc = "built"
    /\ LET p == print(heap, last.r, last.format) IN
         last' = [op |-> "Print", r |-> last.r, format |-> last.format,
                  text |-> IF p.ok THEN StrPtr(p.out, "heap") ELSE NULLP]
    /\ pc' = "printed"
    /\ UNCHANGED <<heap, kids, detached, freed>>

\* parsed = sbJSON_Parse(text); equal = sbJSON_Compare(v, parsed, true)
RoundTripParse ==
    /\ pc = "printed"
    /\ LET p == sbJSON_Parse(heap, last.text) IN
         /\ heap' = p.h
         /\ freed' = p.pb.freed
         /\ last' = [op |-> "Parse", r |-> last.r, text |-> last.text,
                     parsed |-> p.r,
                     equal |-> sbJSON_Compare(p.h, last.r, p.r, TRUE)]
    /\ pc' = "parsed"
    /\ UNCHANGED <<kids, detached>>

RoundTripNext == RoundTripPrint \/ RoundTripParse

SpecRoundTrip == RoundTripInit /\ [][RoundTripNext]_vars

\* C3: for every tree v built with the constructors and the add operations
\* that holds no NaN and no Infinity, sbJSON_Parse(sbJSON_Print(v)) succeeds
\* and returns a tree that sbJSON_Compare reports equal to v.
C3_RoundTrip ==
    pc = "parsed" => last.parsed # NULL /\ last.equal

\* the integer 1 was printed and parsed back, and the trees compare unequal
C3_Witness ==
    /\ pc = "parsed"
    /\ heap[last.r].type = "Number"
    /\ ~heap[last.r].is_number_double
    /\ heap[last.r].u = IntBits(1)
    /\ last.parsed # NULL
    /\ ~last.equal

-----------------------------------------------------------------------------
(* sbJSON.c: duplication, type tests and removal by key.                   *)
(* From here on a result carries ub: the call did something the C standard *)
(* leaves undefined (it read through, or deallocated, a pointer that is    *)
(* the bits of a number).                                                  *)

\* what strdup returns when handed the bits w of a number as a pointer, if
\* it returns: a heap copy of whatever bytes lie at that address
Wild(w) == [p |-> "wild", w |-> w, own |-> "heap"]

\* deallocate(ptr) is undefined: ptr is the bits of a number, or a block
\* that allocate never returned
BadPtr(ptr) == ptr.p = "bits" \/ ptr.own # "heap"

\* some block of blocks is such a pointer
BadFree(blocks) ==
    \E i \in DOMAIN blocks : blocks[i].what # "node" /\ BadPtr(blocks[i].ptr)

\* ub of r, or also
Ub(r, also) == [r EXCEPT !.ub = @ \/ also]

\* sbJSON_Delete as the utilities use it: [h, ub]
Delete(h, item) ==
    [h |-> sbJSON_Delete(h, item).h,
     ub |-> sbJSON_Delete(h, item).ub \/ BadFree(sbJSON_Delete(h, item).freed)]

\* the copy sbJSON_Duplicate makes of the node n itself
DuplicateNode(n) ==
    [ZeroNode EXCEPT
        !.type = n.type,
        !.string_is_const = n.string_is_const,
        !.is_number_double = n.is_number_double,
        !.u = IF n.u = NULLP THEN NULLP
              ELSE IF n.u.p # "str" THEN Wild(n.u.w)
              ELSE sbJSON_strdup(n.u),
        !.string = IF n.string = NULLP THEN NULLP
                   ELSE IF n.string_is_const THEN n.string
                   ELSE sbJSON_strdup(n.string)]

RECURSIVE sbJSON_Duplicate(_, _, _), DuplicateChildren(_, _, _, _, _)
\* one round of the while loop of sbJSON_Duplicate: d is the duplicate of
\* child, next the duplicate made the round before
DuplicateLink(d, newitem, child, next, ub) ==
    DuplicateChildren(
        IF next # NULL
        THEN [d.h EXCEPT ![next].next = d.r, ![d.r].prev = next]
        ELSE [d.h EXCEPT ![newitem].child = d.r],
        newitem, d.h[child].next, d.r, ub \/ d.ub)

\* the while loop of sbJSON_Duplicate and the closing of the prev ring
DuplicateChildren(h, newitem, child, next, ub) ==
    IF child # NULL
    THEN DuplicateLink(sbJSON_Duplicate(h, child, TRUE), newitem, child, next, ub)
    ELSE [h |-> IF h[newitem].child # NULL
                THEN [h EXCEPT ![h[newitem].child].prev = next] ELSE h,
          r |-> newitem, ub |-> ub]

\* sbJSON_Duplicate after the node itself has been copied into n.r
DuplicateRest(n, item, recurse, ub) ==
    IF ~recurse THEN [h |-> n.h, r |-> n.r, ub |-> ub]
    ELSE DuplicateChildren(n.h, n.r, n.h[item].child, NULL, ub)

\* sbJSON_Duplicate: [h, r, ub]
sbJSON_Duplicate(h, item, recurse) ==
    IF item = NULL THEN [h |-> h, r |-> NULL, ub |-> FALSE]
    ELSE DuplicateRest(NewWith(h, DuplicateNode(h[item])), item, recurse,
                       h[item].u # NULLP /\ h[item].u.p = "bits")

sbJSON_IsNull(h, item) == item # NULL /\ h[item].type = "NULL"

sbJSON_IsString(h, item) == item # NULL /\ h[item].type = "String"

sbJSON_IsArray(h, item) == item # NULL /\ h[item].type = "Array"

sbJSON_IsObject(h, item) == item # NULL /\ h[item].type = "Object"

\* sbJSON_DetachItemFromObject: the key is looked up without regard to case
sbJSON_DetachItemFromObject(h, object, string) ==
    sbJSON_DetachItemViaPointer(h, object,
                                sbJSON_GetObjectItem(h, object, string))

\* sbJSON_DetachItemFromObjectCaseSensitive
sbJSON_DetachItemFromObjectCaseSensitive(h, object, string) ==
    sbJSON_DetachItemViaPointer(h, object,
                                sbJSON_GetObjectItemCaseSensitive(h, object, string))

\* sbJSON_DeleteItemFromObject: [h, ub]
sbJSON_DeleteItemFromObject(h, object, string) ==
    Delete(sbJSON_DetachItemFromObject(h, object, string).h,
           sbJSON_DetachItemFromObject(h, object, string).r)

-----------------------------------------------------------------------------
(* sbJSON_Utils.c: strings and JSON pointers.  A C string is the sequence  *)
(* of its characters; s[i] of the C code is CharAt(s, i), and a pointer    *)
(* into a string is the rest of the string from there.                     *)

CharAt(s, i) == IF i < Len(s) THEN s[i + 1] ELSE "NUL"

\* strcmp
RECURSIVE strcmp(_, _)
strcmp(s1, s2) ==
    IF s1 = <<>> /\ s2 = <<>> THEN 0
    ELSE IF CharAt(s1, 0) # CharAt(s2, 0)
    THEN Code[CharAt(s1, 0)] - Code[CharAt(s2, 0)]
    ELSE strcmp(Tail(s1), Tail(s2))

\* compare_strings
compare_strings(string1, string2) ==
    IF string1 = NULLP \/ string2 = NULLP THEN 1
    ELSE strcmp(string1.s, string2.s)

\* the for loop of compare_pointers and the test after it
RECURSIVE ComparePointersLoop(_, _)
ComparePointersLoop(name, pointer) ==
    IF name # <<>> /\ pointer # <<>> /\ Head(pointer) # "/"
    THEN IF Head(pointer) = "~"
         THEN IF /\ (CharAt(pointer, 1) # "0" \/ Head(name) # "~")
                 /\ (CharAt(pointer, 1) # "1" \/ Head(name) # "/")
              THEN FALSE
              ELSE ComparePointersLoop(Tail(name), Drop(pointer, 2))
         ELSE IF Head(name) # Head(pointer) THEN FALSE
         ELSE ComparePointersLoop(Tail(name), Tail(pointer))
    ELSE (pointer # <<>> /\ Head(pointer) # "/") = (name # <<>>)

\* compare_pointers: name is a key, pointer the rest of a JSON pointer
compare_pointers(name, pointer) ==
    name # NULLP /\ ComparePointersLoop(name.s, pointer)

\* encode_string_as_pointer
RECURSIVE encode_string_as_pointer(_)
encode_string_as_pointer(source) ==
    IF source = <<>> THEN <<>>
    ELSE (IF Head(source) = "/" THEN <<"~", "1">>
          ELSE IF Head(source) = "~" THEN <<"~", "0">>
          ELSE <<Head(source)>>) \o encode_string_as_pointer(Tail(source))

\* pointer_encoded_length
pointer_encoded_length(string) == Len(encode_string_as_pointer(string))

\* the for loop of decode_array_index_from_pointer
RECURSIVE IndexLoop(_, _, _)
IndexLoop(pointer, position, parsed_index) ==
    IF Code[CharAt(pointer, position)] >= Code["0"]
       /\ Code[CharAt(pointer, 0)] <= Code["9"]
    THEN IndexLoop(pointer, position + 1,
                   (10 * parsed_index)
                       + (Code[CharAt(pointer, position)] - Code["0"]))
    ELSE [position |-> position, parsed_index |-> parsed_index]

\* decode_array_index_from_pointer after its loop
IndexEnd(pointer, l) ==
    IF CharAt(pointer, l.position) \notin {"NUL", "/"}
    THEN [ok |-> FALSE, index |-> 0]
    ELSE [ok |-> TRUE, index |-> l.parsed_index]

\* decode_array_index_from_pointer: [ok, index]
decode_array_index_from_pointer(pointer) ==
    IF CharAt(pointer, 0) = "0" /\ CharAt(pointer, 1) \notin {"NUL", "/"}
    THEN [ok |-> FALSE, index |-> 0]
    ELSE IndexEnd(pointer, IndexLoop(pointer, 0, 0))

\* get_array_item of sbJSON_Utils.c
Utils_get_array_item(h, array, item) ==
    IF array = NULL THEN NULL ELSE NthFrom(h, h[array].child, item)

\* the rest of pointer from the next '/' or from its end
RECURSIVE SkipToken(_)
SkipToken(pointer) ==
    IF pointer = <<>> \/ Head(pointer) = "/" THEN pointer
    ELSE SkipToken(Tail(pointer))

\* the member loop of get_item_from_pointer
RECURSIVE MemberAt(_, _, _)
MemberAt(h, current_element, pointer) ==
    IF current_element # NULL
       /\ ~compare_pointers(h[current_element].string, pointer)
    THEN MemberAt(h, h[current_element].next, pointer)
    ELSE current_element

\* the while loop of get_item_from_pointer
RECURSIVE FollowPointer(_, _, _)
FollowPointer(h, current_element, pointer) ==
    IF CharAt(pointer, 0) = "/" /\ current_element # NULL
    THEN IF sbJSON_IsArray(h, current_element)
         THEN IF ~decode_array_index_from_pointer(Tail(pointer)).ok THEN NULL
              ELSE FollowPointer(
                       h,
                       Utils_get_array_item(
                           h, current_element,
                           decode_array_index_from_pointer(Tail(pointer)).index),
                       SkipToken(Tail(pointer)))
         ELSE IF sbJSON_IsObject(h, current_element)
         THEN FollowPointer(h,
                            MemberAt(h, h[current_element].child, Tail(pointer)),
                            SkipToken(Tail(pointer)))
         ELSE NULL
    ELSE current_element

\* get_item_from_pointer
get_item_from_pointer(h, object, pointer) ==
    IF pointer = NULLP THEN NULL ELSE FollowPointer(h, object, pointer.s)

sbJSONUtils_GetPointer(h, object, pointer) ==
    get_item_from_pointer(h, object, pointer)

\* the for loop of decode_pointer_inplace over the buffer buf (the string
\* and its terminator), decoded_string at buf[d], string at buf[s]
RECURSIVE DecodeLoop(_, _, _)
DecodeLoop(buf, d, s) ==
    IF buf[s + 1] = "NUL" THEN [buf EXCEPT ![d + 1] = "NUL"]
    ELSE IF buf[s + 1] = "~"
    THEN IF buf[s + 2] = "0"
         THEN DecodeLoop([buf EXCEPT ![d + 1] = "~"], d + 1, s + 2)
         ELSE IF buf[s + 2] = "1"
         THEN DecodeLoop([buf EXCEPT ![d + 2] = "/"], d + 1, s + 2)
         ELSE buf
    ELSE DecodeLoop(buf, d + 1, s + 1)

\* decode_pointer_inplace: the string left in the buffer
decode_pointer_inplace(string) ==
    CString(DecodeLoop(Append(string, "NUL"), 0, 0))

\* detach_item_from_array once c has been found
DetachFromArray(h, array, c) ==
    LET h1 == IF c # h[array].child
              THEN [h EXCEPT ![h[c].prev].next = h[c].next] ELSE h
        h2 == IF h1[c].next # NULL
              THEN [h1 EXCEPT ![h1[c].next].prev = h1[c].prev] ELSE h1
        h3 == IF c = h2[array].child
              THEN [h2 EXCEPT ![array].child = h2[c].next]
              ELSE IF h2[c].next = NULL
              THEN [h2 EXCEPT ![h2[array].child].prev = h2[c].prev]
              ELSE h2
    IN [h |-> [h3 EXCEPT ![c].prev = NULL, ![c].next = NULL], r |-> c]

\* detach_item_from_array: [h, r]
detach_item_from_array(h, array, which) ==
    IF NthFrom(h, h[array].child, which) = NULL THEN [h |-> h, r |-> NULL]
    ELSE DetachFromArray(h, array, NthFrom(h, h[array].child, which))

\* the index of the last '/' of s, 0 when there is none
RECURSIVE strrchr(_)
strrchr(s) ==
    IF s = <<>> THEN 0
    ELSE IF s[Len(s)] = "/" THEN Len(s)
    ELSE strrchr(Take(s, Len(s) - 1))

\* detach_path once the path has been split at its last '/'
DetachSplit(h, parent, child_pointer) ==
    IF sbJSON_IsArray(h, parent)
    THEN IF ~decode_array_index_from_pointer(child_pointer).ok
         THEN [h |-> h, r |-> NULL]
         ELSE detach_item_from_array(
                  h, parent, decode_array_index_from_pointer(child_pointer).index)
    ELSE IF sbJSON_IsObject(h, parent)
    THEN sbJSON_DetachItemFromObject(h, parent, StrPtr(child_pointer, "heap"))
    ELSE [h |-> h, r |-> NULL]

\* detach_path: [h, r]
detach_path(h, object, path) ==
    IF strrchr(path) = 0 THEN [h |-> h, r |-> NULL]
    ELSE DetachSplit(h,
                     get_item_from_pointer(
                         h, object, StrPtr(Take(path, strrchr(path) - 1), "heap")),
                     decode_pointer_inplace(Drop(path, strrchr(path))))

\* sort_list: the walk that tests whether the list is sorted
RECURSIVE SortedWalk(_, _)
SortedWalk(h, current_item) ==
    IF /\ current_item # NULL
       /\ h[current_item].next # NULL
       /\ compare_strings(h[current_item].string,
                          h[h[current_item].next].string) < 0
    THEN SortedWalk(h, h[current_item].next)
    ELSE current_item

\* sort_list: the walk of two pointers that finds the middle
RECURSIVE Middle(_, _, _)
Middle(h, second, current_item) ==
    IF current_item # NULL
    THEN Middle(h, h[second].next,
                IF h[current_item].next # NULL
                THEN h[h[current_item].next].next ELSE NULL)
    ELSE second

\* sort_list: the split before second
Split(h, second) ==
    IF second # NULL /\ h[second].prev # NULL
    THEN [h EXCEPT ![h[second].prev].next = NULL, ![second].prev = NULL]
    ELSE h

\* sort_list: what follows the merge loop
MergeRest2(h, second, result, result_tail) ==
    IF second # NULL /\ result = NULL THEN [h |-> h, r |-> second]
    ELSE [h |-> IF second # NULL
                THEN [h EXCEPT ![result_tail].next = second,
                               ![second].prev = result_tail]
                ELSE h,
          r |-> result]

MergeRest(h, first, second, result, result_tail) ==
    IF first # NULL /\ result = NULL THEN [h |-> h, r |-> first]
    ELSE MergeRest2(IF first # NULL
                    THEN [h EXCEPT ![result_tail].next = first,
                                   ![first].prev = result_tail]
                    ELSE h,
                    second, result, result_tail)

\* sort_list: the merge loop
RECURSIVE MergeLoop(_, _, _, _, _)
MergeStep(h, first, second, result, result_tail, smaller) ==
    MergeLoop(IF result = NULL THEN h
              ELSE [h EXCEPT ![result_tail].next = smaller,
                             ![smaller].prev = result_tail],
              IF first = smaller THEN h[first].next ELSE first,
              IF first = smaller THEN second ELSE h[second].next,
              IF result = NULL THEN smaller ELSE result,
              smaller)

MergeLoop(h, first, second, result, result_tail) ==
    IF first # NULL /\ second # NULL
    THEN MergeStep(h, first, second, result, result_tail,
                   IF compare_strings(h[first].string, h[second].string) < 0
                   THEN first ELSE second)
    ELSE MergeRest(h, first, second, result, result_tail)

RECURSIVE sort_list(_, _)
SortMerge(first, s) == MergeLoop(s.h, first, s.r, NULL, NULL)

SortSecond(f, second) == SortMerge(f.r, sort_list(f.h, second))

SortHalves(h, first, second) == SortSecond(sort_list(h, first), second)

\* sort_list: [h, r |-> the head of the sorted list]
sort_list(h, list) ==
    IF list = NULL THEN [h |-> h, r |-> list]
    ELSE IF h[list].next = NULL THEN [h |-> h, r |-> list]
    ELSE IF h[SortedWalk(h, list)].next = NULL THEN [h |-> h, r |-> list]
    ELSE SortHalves(Split(h, Middle(h, list, list)), list, Middle(h, list, list))

\* sort_object: the heap after
SortObjectSet(object, s) == [s.h EXCEPT ![object].child = s.r]

sort_object(h, object) ==
    IF object = NULL THEN h
    ELSE SortObjectSet(object, sort_list(h, h[object].child))

\* numbers_match
numbers_match(h, a, b) ==
    IF h[a].is_number_double # h[b].is_number_double THEN FALSE
    ELSE IF h[a].is_number_double
    THEN compare_double(valuedouble(h[a].u), valuedouble(h[b].u))
    ELSE valueint(h[a].u) = valueint(h[b].u)

RECURSIVE compare_json(_, _, _), CompareJsonArray(_, _, _),
          CompareJsonObject(_, _, _)
\* the Array loop of compare_json, c the comparison of a with b
CompareJsonArrayNext(c, a, b) ==
    IF ~c.r THEN c ELSE CompareJsonArray(c.h, c.h[a].next, c.h[b].next)

CompareJsonArray(h, a, b) ==
    IF a # NULL /\ b # NULL THEN CompareJsonArrayNext(compare_json(h, a, b), a, b)
    ELSE [h |-> h, r |-> a = NULL /\ b = NULL]

\* the Object loop of compare_json, over the two sorted member lists
CompareJsonObjectNext(c, a, b) ==
    IF ~c.r THEN c ELSE CompareJsonObject(c.h, c.h[a].next, c.h[b].next)

CompareJsonObject(h, a, b) ==
    IF a # NULL /\ b # NULL
    THEN IF compare_strings(h[a].string, h[b].string) # 0
         THEN [h |-> h, r |-> FALSE]
         ELSE CompareJsonObjectNext(compare_json(h, a, b), a, b)
    ELSE [h |-> h, r |-> a = NULL /\ b = NULL]

CompareJsonSorted(h, a, b) == CompareJsonObject(h, h[a].child, h[b].child)

\* compare_json: [h |-> the heap with the objects met sorted, r]
compare_json(h, a, b) ==
    IF a = NULL \/ b = NULL THEN [h |-> h, r |-> FALSE]
    ELSE IF h[a].type # h[b].type THEN [h |-> h, r |-> FALSE]
    ELSE IF h[a].type = "Number" THEN [h |-> h, r |-> numbers_match(h, a, b)]
    ELSE IF h[a].type = "String"
    THEN [h |-> h, r |-> strcmp(h[a].u.s, h[b].u.s) = 0]
    ELSE IF h[a].type = "Array" THEN CompareJsonArray(h, h[a].child, h[b].child)
    ELSE IF h[a].type = "Object"
    THEN CompareJsonSorted(sort_object(sort_object(h, a), b), a, b)
    ELSE [h |-> h, r |-> TRUE]

\* the walk of insert_item_in_array: the child reached and what is left of
\* which
RECURSIVE InsertWalk(_, _, _)
InsertWalk(h, child, which) ==
    IF child # NULL /\ which > 0 THEN InsertWalk(h, h[child].next, which - 1)
    ELSE [child |-> child, which |-> which]

\* insert_item_in_array after the walk
InsertBefore(h, array, w, newitem) ==
    IF w.which > 0 THEN [h |-> h, r |-> FALSE]
    ELSE IF w.child = NULL
    THEN [h |-> sbJSON_AddItemToArray(h, array, newitem).h, r |-> TRUE]
    ELSE [h |-> IF w.child = h[array].child
                THEN [h EXCEPT ![newitem].next = w.child,
                               ![newitem].prev = h[w.child].prev,
                               ![w.child].prev = newitem,
                               ![array].child = newitem]
                ELSE [h EXCEPT ![newitem].next = w.child,
                               ![newitem].prev = h[w.child].prev,
                               ![w.child].prev = newitem,
                               ![h[w.child].prev].next = newitem],
          r |-> TRUE]

\* insert_item_in_array of sbJSON_Utils.c: [h, r]
insert_item_in_array(h, array, which, newitem) ==
    InsertBefore(h, array, InsertWalk(h, h[array].child, which), newitem)

\* get_object_item of sbJSON_Utils.c; name is a string literal
Utils_get_object_item(h, object, name) ==
    sbJSON_GetObjectItem(h, object, StrPtr(name, "ext"))

\* the string literals of the patch code
OpName == <<"o", "p">>

PathName == <<"p", "a", "t", "h">>

ValueName == <<"v", "a", "l", "u", "e">>

FromName == <<"f", "r", "o", "m">>

AddText == <<"a", "d", "d">>

RemoveText == <<"r", "e", "m", "o", "v", "e">>

ReplaceText == <<"r", "e", "p", "l", "a", "c", "e">>

MoveText == <<"m", "o", "v", "e">>

CopyText == <<"c", "o", "p", "y">>

TestText == <<"t", "e", "s", "t">>

\* decode_patch_operation once the member "op" has been looked up
DecodeOperation(h, operation) ==
    IF ~sbJSON_IsString(h, operation) THEN "INVALID"
    ELSE IF strcmp(h[operation].u.s, AddText) = 0 THEN "ADD"
    ELSE IF strcmp(h[operation].u.s, RemoveText) = 0 THEN "REMOVE"
    ELSE IF strcmp(h[operation].u.s, ReplaceText) = 0 THEN "REPLACE"
    ELSE IF strcmp(h[operation].u.s, MoveText) = 0 THEN "MOVE"
    ELSE IF strcmp(h[operation].u.s, CopyText) = 0 THEN "COPY"
    ELSE IF strcmp(h[operation].u.s, TestText) = 0 THEN "TEST"
    ELSE "INVALID"

\* decode_patch_operation
decode_patch_operation(h, patch) ==
    DecodeOperation(h, Utils_get_object_item(h, patch, OpName))

\* overwrite_item once the children of root have been deleted
Overwritten(d, root, replacement, ub) ==
    [h |-> [d.h EXCEPT ![root] = replacement], ub |-> d.ub \/ ub]

\* overwrite_item: [h, ub]
overwrite_item(h, root, replacement) ==
    IF root = NULL THEN [h |-> h, ub |-> FALSE]
    ELSE Overwritten(IF h[root].child # NULL THEN Delete(h, h[root].child)
                     ELSE [h |-> h, ub |-> FALSE],
                     root, replacement,
                     \/ (h[root].string # NULLP /\ BadPtr(h[root].string))
                     \/ (h[root].u # NULLP /\ BadPtr(h[root].u)))

\* apply_patch returns status; value, if any, is deleted on the way out
Status(h, status, value, ub) ==
    [h |-> Delete(h, value).h, r |-> status, ub |-> ub \/ Delete(h, value).ub]

\* apply_patch: value goes into the Object parent under the key child_pointer
PatchMember(d, parent, child_pointer, value, ub) ==
    [h |-> sbJSON_AddItemToObject(d.h, parent, StrPtr(child_pointer, "heap"),
                                  value).h,
     r |-> 0,
     ub |-> ub \/ d.ub
               \/ BadFree(sbJSON_AddItemToObject(
                              d.h, parent, StrPtr(child_pointer, "heap"),
                              value).freed)]

\* apply_patch: value goes into the Array parent at the index child_pointer
PatchElement(h, parent, i, value, ub) ==
    IF ~i.ok THEN Status(h, 11, value, ub)
    ELSE IF ~insert_item_in_array(h, parent, i.index, value).r
    THEN Status(h, 10, value, ub)
    ELSE [h |-> insert_item_in_array(h, parent, i.index, value).h,
          r |-> 0, ub |-> ub]

\* apply_patch from "add, remove, replace, move, copy, test." on
PatchInto(h, parent, child_pointer, value, ub) ==
    IF parent = NULL THEN Status(h, 9, value, ub)
    ELSE IF sbJSON_IsArray(h, parent)
    THEN IF strcmp(child_pointer, <<"-">>) = 0
         THEN [h |-> sbJSON_AddItemToArray(h, parent, value).h,
               r |-> 0, ub |-> ub]
         ELSE PatchElement(h, parent,
                           decode_array_index_from_pointer(child_pointer),
                           value, ub)
    ELSE IF sbJSON_IsObject(h, parent)
    THEN PatchMember(
             sbJSON_DeleteItemFromObject(h, parent, StrPtr(child_pointer, "heap")),
             parent, child_pointer, value, ub)
    ELSE Status(h, 9, value, ub)

\* apply_patch from "Now, just add value to path." on
PatchInsert(h, object, path, value, ub) ==
    IF strrchr(path) = 0 THEN Status(h, 9, value, ub)
    ELSE PatchInto(h,
                   get_item_from_pointer(
                       h, object, StrPtr(Take(path, strrchr(path) - 1), "heap")),
                   decode_pointer_inplace(Drop(path, strrchr(path))),
                   value, ub)

\* apply_patch: the value has been detached (move) or duplicated (d)
PatchWith(d, object, path, status, ub) ==
    IF d.r = NULL THEN [h |-> d.h, r |-> status, ub |-> ub]
    ELSE PatchInsert(d.h, object, path, d.r, ub)

\* apply_patch: Copy/Move uses "from"; reading the string of a member
\* "from" that is no String reads through u.valuestring all the same
PatchFrom(h, object, path, opcode, from, ub) ==
    IF from = NULL THEN [h |-> h, r |-> 4, ub |-> ub]
    ELSE IF h[from].u = NULLP
    THEN [h |-> h, r |-> 5, ub |-> ub \/ opcode = "MOVE"]
    ELSE IF h[from].u.p = "bits" THEN [h |-> h, r |-> 5, ub |-> TRUE]
    ELSE IF opcode = "MOVE"
    THEN PatchWith(detach_path(h, object, h[from].u.s), object, path, 5, ub)
    ELSE IF get_item_from_pointer(h, object, h[from].u) = NULL
    THEN [h |-> h, r |-> 5, ub |-> ub]
    ELSE PatchWith(
             sbJSON_Duplicate(h, get_item_from_pointer(h, object, h[from].u), TRUE),
             object, path, 6,
             ub \/ sbJSON_Duplicate(
                       h, get_item_from_pointer(h, object, h[from].u), TRUE).ub)

\* apply_patch: Add/Replace uses "value"
PatchValue(h, object, path, value, ub) ==
    IF value = NULL THEN [h |-> h, r |-> 7, ub |-> ub]
    ELSE PatchWith(sbJSON_Duplicate(h, value, TRUE), object, path, 8,
                   ub \/ sbJSON_Duplicate(h, value, TRUE).ub)

\* apply_patch from "Copy/Move uses from" on
PatchNew(h, object, patch, path, opcode, ub) ==
    IF opcode \in {"MOVE", "COPY"}
    THEN PatchFrom(h, object, path, opcode,
                   Utils_get_object_item(h, patch, FromName), ub)
    ELSE PatchValue(h, object, path,
                    Utils_get_object_item(h, patch, ValueName), ub)

\* apply_patch: the old item has been deleted
PatchDeleted(d, object, patch, path, opcode) ==
    IF opcode = "REMOVE" THEN [h |-> d.h, r |-> 0, ub |-> d.ub]
    ELSE PatchNew(d.h, object, patch, path, opcode, d.ub)

\* apply_patch: remove and replace get rid of the old item
PatchOld(old_item, object, patch, path, opcode) ==
    IF old_item.r = NULL THEN [h |-> old_item.h, r |-> 13, ub |-> FALSE]
    ELSE PatchDeleted(Delete(old_item.h, old_item.r), object, patch, path, opcode)

\* apply_patch: the root has been overwritten with the duplicate value
RootReplaced(o, object, value, ub) ==
    [h |-> Release([o.h EXCEPT ![object].string = NULLP], value),
     r |-> 0,
     ub |-> ub \/ o.ub
               \/ (o.h[object].string # NULLP /\ BadPtr(o.h[object].string))]

RootReplace(d, object) ==
    RootReplaced(overwrite_item(d.h, object, d.h[d.r]), object, d.r, d.ub)

\* the static const sbJSON invalid of apply_patch
invalid == ZeroNode

\* apply_patch: the special case for replacing the root
PatchRoot(h, object, patch, opcode) ==
    IF opcode = "REMOVE"
    THEN [h |-> overwrite_item(h, object, invalid).h, r |-> 0,
          ub |-> overwrite_item(h, object, invalid).ub]
    ELSE IF Utils_get_object_item(h, patch, ValueName) = NULL
    THEN [h |-> h, r |-> 7, ub |-> FALSE]
    ELSE RootReplace(
             sbJSON_Duplicate(h, Utils_get_object_item(h, patch, ValueName), TRUE),
             object)

\* apply_patch: the test operation
PatchTest(c) == [h |-> c.h, r |-> IF c.r THEN 0 ELSE 1, ub |-> FALSE]

\* apply_patch once path is known to be a String
PatchOperation(h, object, patch, path, opcode) ==
    IF opcode = "INVALID" THEN [h |-> h, r |-> 3, ub |-> FALSE]
    ELSE IF opcode = "TEST"
    THEN PatchTest(compare_json(h,
                                get_item_from_pointer(h, object, path),
                                Utils_get_object_item(h, patch, ValueName)))
    ELSE IF path.s = <<>> /\ opcode \in {"REMOVE", "REPLACE", "ADD"}
    THEN PatchRoot(h, object, patch, opcode)
    ELSE IF opcode \in {"REMOVE", "REPLACE"}
    THEN PatchOld(detach_path(h, object, path.s), object, patch, path.s, opcode)
    ELSE PatchNew(h, object, patch, path.s, opcode, FALSE)

\* apply_patch: [h, r |-> status, ub]
apply_patch(h, object, patch) ==
    IF ~sbJSON_IsString(h, Utils_get_object_item(h, patch, PathName))
    THEN [h |-> h, r |-> 2, ub |-> FALSE]
    ELSE PatchOperation(h, object, patch,
                        h[Utils_get_object_item(h, patch, PathName)].u,
                        decode_patch_operation(h, patch))

RECURSIVE ApplyLoop(_, _, _, _, _)
\* the body of the while loop of sbJSONUtils_ApplyPatches with the test of
\* status left out
ApplyNext_no_return(a, object, current_patch, steps, ub) ==
    ApplyLoop(a.h, object, a.h[current_patch].next,
              Append(steps, [patch |-> current_patch, status |-> a.r]),
              ub \/ a.ub)

\* the body of the while loop of sbJSONUtils_ApplyPatches, a what
\* apply_patch(object, current_patch) returned; steps lists the calls of
\* apply_patch: the patch and the status of each
ApplyNext(a, object, current_patch, steps, ub) ==
    IF a.r # 0
    THEN [h |-> a.h, r |-> a.r, ub |-> ub \/ a.ub,
          steps |-> Append(steps, [patch |-> current_patch, status |-> a.r])]
    ELSE ApplyLoop(a.h, object, a.h[current_patch].next,
                   Append(steps, [patch |-> current_patch, status |-> a.r]),
                   ub \/ a.ub)

ApplyLoop(h, object, current_patch, steps, ub) ==
    IF current_patch # NULL
    THEN ApplyNext(apply_patch(h, object, current_patch), object, current_patch,
                   steps, ub)
    ELSE [h |-> h, r |-> 0, ub |-> ub, steps |-> steps]

\* sbJSONUtils_ApplyPatches: [h, r |-> status, ub, steps]
sbJSONUtils_ApplyPatches(h, object, patches) ==
    IF ~sbJSON_IsArray(h, patches)
    THEN [h |-> h, r |-> 1, ub |-> FALSE, steps |-> <<>>]
    ELSE ApplyLoop(h, object, h[patches].child, <<>>, FALSE)

\* sbJSON_AddItemToObject(object, name, sbJSON_CreateString(text)): the heap
AddStringMember(h, object, name, text) ==
    LET s == sbJSON_CreateString(h, StrPtr(text, "ext"))
    IN sbJSON_AddItemToObject(s.h, object, StrPtr(name, "ext"), s.r).h

\* compose_patch: the member "value" and the append to patches
ComposeAppend(h, patches, patch, ub) ==
    [h |-> sbJSON_AddItemToArray(h, patches, patch).h, ub |-> ub]

ComposeValue(d, patches, patch) ==
    ComposeAppend(
        sbJSON_AddItemToObject(d.h, patch, StrPtr(ValueName, "ext"), d.r).h,
        patches, patch, d.ub)

\* compose_patch once the patch object p exists
Composed(p, patches, operation, full_path, value) ==
    IF value # NULL
    THEN ComposeValue(
             sbJSON_Duplicate(
                 AddStringMember(AddStringMember(p.h, p.r, OpName, operation),
                                 p.r, PathName, full_path),
                 value, TRUE),
             patches, p.r)
    ELSE ComposeAppend(
             AddStringMember(AddStringMember(p.h, p.r, OpName, operation),
                             p.r, PathName, full_path),
             patches, p.r, FALSE)

\* compose_patch: [h, ub]; suffix is NULLP or a string
compose_patch(h, patches, operation, path, suffix, value) ==
    IF patches = NULL THEN [h |-> h, ub |-> FALSE]
    ELSE Composed(sbJSON_CreateObject(h), patches, operation,
                  IF suffix = NULLP THEN path
                  ELSE path \o <<"/">> \o encode_string_as_pointer(suffix.s),
                  value)

RECURSIVE create_patches(_, _, _, _, _),
          CreateArrayPatches(_, _, _, _, _, _, _),
          CreateObjectPatches(_, _, _, _, _, _)
\* the three for loops of the Array case of create_patches: c is what the
\* round just made left
CreateArrayNext(c, patches, path, from_child, to_child, index, ub) ==
    CreateArrayPatches(c.h, patches, path, from_child, to_child, index,
                       ub \/ c.ub)

CreateArrayPatches(h, patches, path, from_child, to_child, index, ub) ==
    IF from_child # NULL /\ to_child # NULL
    THEN CreateArrayNext(
             create_patches(h, patches, path \o <<"/">> \o NatToStr(index),
                            from_child, to_child),
             patches, path, h[from_child].next, h[to_child].next, index + 1, ub)
    ELSE IF from_child # NULL
    THEN CreateArrayNext(
             compose_patch(h, patches, RemoveText, path,
                           StrPtr(NatToStr(index), "heap"), NULL),
             patches, path, h[from_child].next, to_child, index, ub)
    ELSE IF to_child # NULL
    THEN CreateArrayNext(
             compose_patch(h, patches, AddText, path, StrPtr(<<"-">>, "ext"),
                           to_child),
             patches, path, from_child, h[to_child].next, index + 1, ub)
    ELSE [h |-> h, ub |-> ub]

\* the while loop of the Object case of create_patches
CreateObjectNext(c, patches, path, from_child, to_child, ub) ==
    CreateObjectPatches(c.h, patches, path, from_child, to_child, ub \/ c.ub)

CreateObjectStep(h, patches, path, from_child, to_child, diff, ub) ==
    IF diff = 0
    THEN CreateObjectNext(
             create_patches(h, patches,
                            path \o <<"/">>
                                 \o encode_string_as_pointer(h[from_child].string.s),
                            from_child, to_child),
             patches, path, h[from_child].next, h[to_child].next, ub)
    ELSE IF diff < 0
    THEN CreateObjectNext(
             compose_patch(h, patches, RemoveText, path, h[from_child].string,
                           NULL),
             patches, path, h[from_child].next, to_child, ub)
    ELSE CreateObjectNext(
             compose_patch(h, patches, AddText, path, h[to_child].string,
                           to_child),
             patches, path, from_child, h[to_child].next, ub)

CreateObjectPatches(h, patches, path, from_child, to_child, ub) ==
    IF from_child = NULL /\ to_child = NULL THEN [h |-> h, ub |-> ub]
    ELSE CreateObjectStep(
             h, patches, path, from_child, to_child,
             IF from_child = NULL THEN 1
             ELSE IF to_child = NULL THEN -1
             ELSE compare_strings(h[from_child].string, h[to_child].string),
             ub)

CreateObjectSorted(h, patches, path, from, to) ==
    CreateObjectPatches(h, patches, path, h[from].child, h[to].child, FALSE)

\* create_patches: [h, ub]
create_patches(h, patches, path, from, to) ==
    IF from = NULL \/ to = NULL THEN [h |-> h, ub |-> FALSE]
    ELSE IF h[from].type # h[to].type
    THEN compose_patch(h, patches, ReplaceText, path, NULLP, to)
    ELSE IF h[from].type = "Number"
    THEN IF ~numbers_match(h, from, to)
         THEN compose_patch(h, patches, ReplaceText, path, NULLP, to)
         ELSE [h |-> h, ub |-> FALSE]
    ELSE IF h[from].type = "String"
    THEN IF strcmp(h[from].u.s, h[to].u.s) # 0
         THEN compose_patch(h, patches, ReplaceText, path, NULLP, to)
         ELSE [h |-> h, ub |-> FALSE]
    ELSE IF h[from].type = "Array"
    THEN CreateArrayPatches(h, patches, path, h[from].child, h[to].child, 0, FALSE)
    ELSE IF h[from].type = "Object"
    THEN CreateObjectSorted(sort_object(sort_object(h, from), to), patches, path,
                            from, to)
    ELSE [h |-> h, ub |-> FALSE]

\* sbJSONUtils_GeneratePatches once the array of patches exists
GeneratedPatches(c, patches) == [h |-> c.h, r |-> patches, ub |-> c.ub]

GeneratePatchesInto(a, from, to) ==
    GeneratedPatches(create_patches(a.h, a.r, <<>>, from, to), a.r)

\* sbJSONUtils_GeneratePatches: [h, r, ub]
sbJSONUtils_GeneratePatches(h, from, to) ==
    IF from = NULL \/ to = NULL THEN [h |-> h, r |-> NULL, ub |-> FALSE]
    ELSE GeneratePatchesInto(sbJSON_CreateArray(h), from, to)

\* sbJSONUtils_SortObject: the heap after
sbJSONUtils_SortObject(h, object) == sort_object(h, object)

RECURSIVE merge_patch(_, _, _), MergeMembers(_, _, _, _)
\* merge_patch: the patch is no Object, the target has been deleted
MergeCopy(d, patch) == Ub(sbJSON_Duplicate(d.h, patch, TRUE), d.ub)

\* merge_patch: the target was no Object and has been deleted
MergeNew(d, patch) ==
    MergeMembers(sbJSON_CreateObject(d.h).h, sbJSON_CreateObject(d.h).r,
                 d.h[patch].child, d.ub)

\* the while loop of merge_patch: the member has been deleted from target
MergeDeleted(d, target, patch_child, ub) ==
    MergeMembers(d.h, target, d.h[patch_child].next, ub \/ d.ub)

\* the while loop of merge_patch: replacement is the merged member;
\* a is sbJSON_AddItemToObject(target, patch_child->string, replacement)
MergeAdded(a, target, next, ub) ==
    MergeMembers(a.h, target, next, ub \/ BadFree(a.freed))

MergeReplaced(replacement, target, patch_child, ub) ==
    IF replacement.r = NULL
    THEN [h |-> Delete(replacement.h, target).h, r |-> NULL,
          ub |-> ub \/ replacement.ub \/ Delete(replacement.h, target).ub]
    ELSE MergeAdded(
             sbJSON_AddItemToObject(replacement.h, target,
                                    replacement.h[patch_child].string,
                                    replacement.r),
             target, replacement.h[patch_child].next, ub \/ replacement.ub)

MergeDetached(replace_me, target, patch_child, ub) ==
    MergeReplaced(merge_patch(replace_me.h, replace_me.r, patch_child),
                  target, patch_child, ub)

MergeMembers(h, target, patch_child, ub) ==
    IF patch_child = NULL THEN [h |-> h, r |-> target, ub |-> ub]
    ELSE IF sbJSON_IsNull(h, patch_child)
    THEN MergeDeleted(
             sbJSON_DeleteItemFromObject(h, target, h[patch_child].string),
             target, patch_child, ub)
    ELSE MergeDetached(
             sbJSON_DetachItemFromObject(h, target, h[patch_child].string),
             target, patch_child, ub)

\* merge_patch: [h, r |-> the merged tree, ub]
merge_patch(h, target, patch) ==
    IF ~sbJSON_IsObject(h, patch) THEN MergeCopy(Delete(h, target), patch)
    ELSE IF ~sbJSON_IsObject(h, target) THEN MergeNew(Delete(h, target), patch)
    ELSE MergeMembers(h, target, h[patch].child, FALSE)

sbJSONUtils_MergePatch(h, target, patch) == merge_patch(h, target, patch)

RECURSIVE generate_merge_patch(_, _, _), GenerateMembers(_, _, _, _, _)
\* the while loop of generate_merge_patch: item goes into patch under key
GenerateAdd(n, patch, key, from_child, to_child, ub) ==
    GenerateMembers(sbJSON_AddItemToObject(n.h, patch, key, n.r).h, patch,
                    from_child, to_child, ub)

\* the while loop of generate_merge_patch: the key is in both objects and
\* c is compare_json(from_child, to_child)
GenerateBoth(c, patch, from_child, to_child, ub) ==
    IF ~c.r
    THEN GenerateAdd(generate_merge_patch(c.h, from_child, to_child), patch,
                     c.h[to_child].string,
                     c.h[from_child].next, c.h[to_child].next,
                     ub \/ generate_merge_patch(c.h, from_child, to_child).ub)
    ELSE GenerateMembers(c.h, patch, c.h[from_child].next, c.h[to_child].next, ub)

GenerateStep(h, patch, from_child, to_child, diff, ub) ==
    IF diff < 0
    THEN GenerateAdd(sbJSON_CreateNull(h), patch, h[from_child].string,
                     h[from_child].next, to_child, ub)
    ELSE IF diff > 0
    THEN GenerateAdd(sbJSON_Duplicate(h, to_child, TRUE), patch,
                     h[to_child].string, from_child, h[to_child].next,
                     ub \/ sbJSON_Duplicate(h, to_child, TRUE).ub)
    ELSE GenerateBoth(compare_json(h, from_child, to_child), patch,
                      from_child, to_child, ub)

GenerateMembers(h, patch, from_child, to_child, ub) ==
    IF from_child = NULL /\ to_child = NULL
    THEN IF h[patch].child = NULL
         THEN [h |-> Delete(h, patch).h, r |-> NULL, ub |-> ub]
         ELSE [h |-> h, r |-> patch, ub |-> ub]
    ELSE GenerateStep(h, patch, from_child, to_child,
                      IF from_child = NULL THEN 1
                      ELSE IF to_child = NULL THEN -1
                      ELSE strcmp(h[from_child].string.s, h[to_child].string.s),
                      ub)

\* generate_merge_patch once both objects are sorted
GenerateSorted(h, from, to) ==
    GenerateMembers(sbJSON_CreateObject(h).h, sbJSON_CreateObject(h).r,
                    h[from].child, h[to].child, FALSE)

\* generate_merge_patch: [h, r |-> the patch, ub]
generate_merge_patch(h, from, to) ==
    IF to = NULL
    THEN [h |-> sbJSON_CreateNull(h).h, r |-> sbJSON_CreateNull(h).r,
          ub |-> FALSE]
    ELSE IF ~sbJSON_IsObject(h, to) \/ ~sbJSON_IsObject(h, from)
    THEN sbJSON_Duplicate(h, to, TRUE)
    ELSE GenerateSorted(sort_object(sort_object(h, from), to), from, to)

sbJSONUtils_GenerateMergePatch(h, from, to) == generate_merge_patch(h, from, to)

-----------------------------------------------------------------------------
(* JSON Patch, generated: the caller builds two trees from and to, takes a *)
(* duplicate of from, generates the patches that lead from from to to and  *)
(* applies them to the duplicate.                                          *)

\* the arrays and objects of the patch inputs have at most this many items
MaxPatchWidth == 2

KeyUpperA == <<"A">>

KeySlash == <<"a", "/", "b">>

\* the objects of at most n members with distinct keys of K and values of V
ObjectsOver(K, V, n) ==
    UNION {{VObj([i \in 1..m |-> Member(ks[i], vs[i])]) :
               ks \in {f \in [1..m -> K] :
                          \A i, j \in 1..m : i # j => f[i] # f[j]},
               vs \in [1..m -> V]} : m \in 0..n}

PatchLeaves == {VNull, VStr(<<"x">>), VInt(0), VInt(1)}

PatchArrays == {VArr(s) : s \in SeqUpTo({VStr(<<"x">>), VInt(1)}, MaxPatchWidth)}

PatchObjects ==
    ObjectsOver({KeyA, KeyUpperA, KeySlash}, {VStr(<<"x">>), VStr(<<"y">>)},
                MaxPatchWidth)

PatchNested ==
    {VObj(<<Member(KeyA, VArr(<<VStr(<<"x">>)>>))>>),
     VObj(<<Member(KeyA, VObj(<<Member(KeyB, VStr(<<"y">>))>>))>>)}

PatchInputs == PatchLeaves \cup PatchArrays \cup PatchObjects \cup PatchNested

\* what a call may do when it is undefined: the process is killed (TRUE) or
\* the call returns
Faults(ub) == IF ub THEN BOOLEAN ELSE {FALSE}

PatchInit ==
    /\ \E v, w \in PatchInputs :
         LET from == BuildTree(<<>>, v)
             to == BuildTree(from.h, w)
         IN /\ heap = to.h
            /\ last = [op |-> "BuildTree", from |-> from.r, to |-> to.r,
                       ub |-> FALSE]
    /\ kids = <<>>
    /\ detached = {}
    /\ freed = <<>>
    /\ pc = "built"

\* dup = sbJSON_Duplicate(from, true)
PatchDuplicate ==
    /\ pc = "built"
    /\ LET d == sbJSON_Duplicate(heap, last.from, TRUE) IN
         \E fault \in Faults(d.ub) :
            /\ heap' = IF fault THEN heap ELSE d.h
            /\ pc' = IF fault THEN "fault" ELSE "duplicated"
            /\ last' = [op |-> "Duplicate", from |-> last.from, to |-> last.to,
                        dup |-> d.r, ub |-> d.ub]
    /\ UNCHANGED <<kids, detached, freed>>

\* patches = sbJSONUtils_GeneratePatches(from, to)
PatchGenerate ==
    /\ pc = "duplicated"
    /\ LET g == sbJSONUtils_GeneratePatches(heap, last.from, last.to) IN
         \E fault \in Faults(g.ub) :
            /\ heap' = IF fault THEN heap ELSE g.h
            /\ pc' = IF fault THEN "fault" ELSE "generated"
            /\ last' = [op |-> "GeneratePatches", from |-> last.from,
                        to |-> last.to, dup |-> last.dup, patches |-> g.r,
                        ub |-> last.ub \/ g.ub]
    /\ UNCHANGED <<kids, detached, freed>>

\* status = sbJSONUtils_ApplyPatches(dup, patches);
\* equal = sbJSON_Compare(dup, to, true)
PatchApply ==
    /\ pc = "generated"
    /\ LET a == sbJSONUtils_ApplyPatches(heap, last.dup, last.patches) IN
         \E fault \in Faults(a.ub) :
            /\ heap' = IF fault THEN heap ELSE a.h
            /\ pc' = IF fault THEN "fault" ELSE "applied"
            /\ last' = [op |-> "ApplyPatches", from |-> last.from,
                        to |-> last.to, dup |-> last.dup,
                        patches |-> last.patches, status |-> a.r,
                        equal |-> sbJSON_Compare(a.h, last.dup, last.to, TRUE),
                        ub |-> last.ub \/ a.ub]
    /\ UNCHANGED <<kids, detached, freed>>

PatchNext == PatchDuplicate \/ PatchGenerate \/ PatchApply

SpecPatch == PatchInit /\ [][PatchNext]_vars

\* C4: for any two trees from and to, sbJSONUtils_ApplyPatches applied to a
\* duplicate of from with the patch array sbJSONUtils_GeneratePatches(from,
\* to) returned returns 0 and leaves the duplicate structurally equal to to
\* (and none of the calls kills the process).
C4_GenerateApply ==
    /\ pc # "fault"
    /\ pc = "applied" => last.status = 0 /\ last.equal

\* every call was defined and the patches applied with status 0, yet the
\* duplicate has lost the member "A" that to has: from = {"A": ...},
\* to = {"A": ..., "a": ...}
C4_Witness ==
    /\ pc = "applied"
    /\ ~last.ub
    /\ last.status = 0
    /\ ~last.equal
    /\ sbJSON_GetObjectItemCaseSensitive(heap, last.to,
                                         StrPtr(KeyUpperA, "ext")) # NULL
    /\ sbJSON_GetObjectItemCaseSensitive(heap, last.to, StrPtr(KeyA, "ext")) # NULL
    /\ sbJSON_GetObjectItemCaseSensitive(heap, last.dup,
                                         StrPtr(KeyUpperA, "ext")) = NULL

-----------------------------------------------------------------------------
(* JSON Merge Patch: the caller builds two trees and either generates the  *)
(* merge patch that leads from the first to the second and applies it to   *)
(* the first, or applies the second to the first as a merge patch.         *)

\* the objects of the merge inputs have at most this many members
MaxMergeWidth == 2

MergeObjects ==
    ObjectsOver({KeyA, KeyUpperA, KeyB}, {VNull, VStr(<<"x">>), VStr(<<"y">>)},
                MaxMergeWidth)

MergeNested ==
    {VObj(<<Member(KeyA, VObj(<<Member(KeyB, VStr(<<"x">>))>>))>>),
     VObj(<<Member(KeyA, VObj(<<Member(KeyB, VNull)>>))>>),
     VObj(<<Member(KeyA, VObj(<<>>))>>)}

MergeOthers == {VNull, VStr(<<"x">>), VInt(1), VArr(<<>>), VArr(<<VStr(<<"x">>)>>)}

MergeInputs == MergeObjects \cup MergeNested \cup MergeOthers

\* the JSON value a tree stands for: an object is the set of its members
RECURSIVE Abs(_, _), AbsItems(_, _), AbsMembers(_, _)
Abs(h, item) ==
    IF item = NULL THEN [t |-> "none"]
    ELSE IF h[item].type = "Object"
    THEN [t |-> "Object", members |-> AbsMembers(h, h[item].child)]
    ELSE IF h[item].type = "Array"
    THEN [t |-> "Array", items |-> AbsItems(h, h[item].child)]
    ELSE IF h[item].type \in {"String", "Raw", "Number"}
    THEN [t |-> h[item].type, u |-> h[item].u]
    ELSE [t |-> h[item].type]

AbsItems(h, child) ==
    IF child = NULL THEN <<>>
    ELSE <<Abs(h, child)>> \o AbsItems(h, h[child].next)

AbsMembers(h, child) ==
    IF child = NULL THEN {}
    ELSE {[key |-> h[child].string.s, value |-> Abs(h, child)]}
             \cup AbsMembers(h, h[child].next)

\* RFC 7396, MergePatch(Target, Patch), over the values of Abs
RECURSIVE MergeRfc(_, _)
RfcMembers(target) == IF target.t = "Object" THEN target.members ELSE {}

RfcOld(members, key) ==
    IF \E m \in members : m.key = key
    THEN (CHOOSE m \in members : m.key = key).value
    ELSE [t |-> "none"]

RfcMerged(members, patch) ==
    {m \in members : \A p \in patch.members : p.key # m.key}
        \cup {[key |-> p.key, value |-> MergeRfc(RfcOld(members, p.key), p.value)] :
                 p \in {q \in patch.members : q.value.t # "NULL"}}

MergeRfc(target, patch) ==
    IF patch.t # "Object" THEN patch
    ELSE [t |-> "Object", members |-> RfcMerged(RfcMembers(target), patch)]

MergeInit ==
    /\ \E v, w \in MergeInputs :
         LET from == BuildTree(<<>>, v)
             to == BuildTree(from.h, w)
         IN /\ heap = to.h
            /\ last = [op |-> "BuildTree", from |-> from.r, to |-> to.r,
                       ub |-> FALSE]
    /\ kids = <<>>
    /\ detached = {}
    /\ freed = <<>>
    /\ pc = "built"

\* same = sbJSON_Compare(from, to, true);
\* patch = sbJSONUtils_GenerateMergePatch(from, to)
MergeGenerate ==
    /\ pc = "built"
    /\ LET g == sbJSONUtils_GenerateMergePatch(heap, last.from, last.to) IN
         \E fault \in Faults(g.ub) :
            /\ heap' = IF fault THEN heap ELSE g.h
            /\ pc' = IF fault THEN "fault" ELSE "generated"
            /\ last' = [op |-> "GenerateMergePatch", from |-> last.from,
                        to |-> last.to, patch |-> g.r,
                        same |-> sbJSON_Compare(heap, last.from, last.to, TRUE),
                        ub |-> g.ub]
    /\ UNCHANGED <<kids, detached, freed>>

\* from = sbJSONUtils_MergePatch(from, patch);
\* equal = sbJSON_Compare(from, to, true)
MergeApply ==
    /\ pc = "generated"
    /\ LET m == sbJSONUtils_MergePatch(heap, last.from, last.patch) IN
         \E fault \in Faults(m.ub) :
            /\ heap' = IF fault THEN heap ELSE m.h
            /\ pc' = IF fault THEN "fault" ELSE "merged"
            /\ last' = [op |-> "MergeGenerated", to |-> last.to,
                        patch |-> last.patch, same |-> last.same,
                        result |-> m.r,
                        equal |-> sbJSON_Compare(m.h, m.r, last.to, TRUE),
                        ub |-> last.ub \/ m.ub]
    /\ UNCHANGED <<kids, detached, freed>>

\* from = sbJSONUtils_MergePatch(from, to): the second tree is the patch
MergeDirect ==
    /\ pc = "built"
    /\ LET m == sbJSONUtils_MergePatch(heap, last.from, last.to) IN
         \E fault \in Faults(m.ub) :
            /\ heap' = IF fault THEN heap ELSE m.h
            /\ pc' = IF fault THEN "fault" ELSE "patched"
            /\ last' = [op |-> "MergePatch", target |-> Abs(heap, last.from),
                        patch |-> Abs(heap, last.to),
                        result |-> IF m.ub THEN [t |-> "none"] ELSE Abs(m.h, m.r),
                        ub |-> m.ub]
    /\ UNCHANGED <<kids, detached, freed>>

MergeNext == MergeGenerate \/ MergeApply \/ MergeDirect

SpecMerge == MergeInit /\ [][MergeNext]_vars

\* C5: for any two trees from and to, sbJSONUtils_MergePatch(from,
\* sbJSONUtils_GenerateMergePatch(from, to)) returns a tree structurally
\* equal to to, also when from and to are equal to begin with (and neither
\* call kills the process).
C5_GenerateMerge ==
    /\ pc = "fault" => last.op = "MergePatch"
    /\ pc = "merged" => last.result # NULL /\ last.equal

\* from and to were equal, every call was defined, and the merge returned
\* NULL because the generated patch was NULL
C5_Witness ==
    /\ pc = "merged"
    /\ ~last.ub
    /\ last.same
    /\ last.patch = NULL
    /\ last.result = NULL

\* C6: sbJSONUtils_MergePatch(target, patch) returns the RFC 7396 result: a
\* copy of patch when patch is not an Object; otherwise target (an empty
\* object when target is not an Object) where, for each member of patch, a
\* null value removes the member with exactly that key and any other value
\* sets that key to MergePatch(old value of the key, patch value), all other
\* members of target kept (and the call does not kill the process).
C6_MergeRfc ==
    /\ pc = "fault" => last.op # "MergePatch"
    /\ pc = "patched" => last.result = MergeRfc(last.target, last.patch)

\* target = {"A":"x"}, patch = {"a":null}: the call was defined and removed
\* the member "A", whose key is not the patch member's
C6_Witness ==
    /\ pc = "patched"
    /\ ~last.ub
    /\ last.target = [t |-> "Object", members |->
                         {[key |-> KeyUpperA, value |->
                              [t |-> "String", u |-> StrPtr(<<"x">>, "heap")]]}]
    /\ last.patch = [t |-> "Object", members |->
                        {[key |-> KeyA, value |-> [t |-> "NULL"]]}]
    /\ last.result = [t |-> "Object", members |-> {}]

-----------------------------------------------------------------------------
(* JSON Patch, applied: the caller builds a document and an array of patch *)
(* operations and calls sbJSONUtils_ApplyPatches once.                     *)

\* the patch arrays hold at most this many operations
MaxPatches == 3

PathA == <<"/", "a">>

PathB == <<"/", "b">>

Operation(op, path) ==
    <<Member(OpName, VStr(op)), Member(PathName, VStr(path))>>

ApplyOperations ==
    {VObj(Operation(AddText, PathB) \o <<Member(ValueName, VStr(<<"y">>))>>),
     VObj(Operation(RemoveText, PathA)),
     VObj(Operation(ReplaceText, PathA) \o <<Member(ValueName, VStr(<<"y">>))>>),
     VObj(Operation(TestText, PathA) \o <<Member(ValueName, VStr(<<"x">>))>>),
     VObj(Operation(MoveText, PathB) \o <<Member(FromName, VStr(PathA))>>),
     VObj(Operation(CopyText, PathA) \o <<Member(FromName, VStr(PathB))>>),
     VObj(<<Member(OpName, VStr(<<"b", "a", "d">>))>>)}

ApplyDocuments ==
    {VObj(<<>>), VObj(<<Member(KeyA, VStr(<<"x">>))>>),
     VObj(<<Member(KeyA, VStr(<<"x">>)), Member(KeyB, VStr(<<"x">>))>>),
     VArr(<<VStr(<<"x">>)>>)}

\* the patch arrays, and one value that is not an array
ApplyPatchInputs ==
    {VArr(s) : s \in SeqUpTo(ApplyOperations, MaxPatches)} \cup {VNull}

ApplyInit ==
    /\ \E v \in ApplyDocuments, w \in ApplyPatchInputs :
         LET object == BuildTree(<<>>, v)
             patches == BuildTree(object.h, w)
         IN /\ heap = patches.h
            /\ last = [op |-> "BuildTree", object |-> object.r,
                       patches |-> patches.r]
    /\ kids = <<>>
    /\ detached = {}
    /\ freed = <<>>
    /\ pc = "built"

\* status = sbJSONUtils_ApplyPatches(object, patches)
ApplyCall ==
    /\ pc = "built"
    /\ LET a == sbJSONUtils_ApplyPatches(heap, last.object, last.patches) IN
         \E fault \in Faults(a.ub) :
            /\ heap' = IF fault THEN heap ELSE a.h
            /\ pc' = IF fault THEN "fault" ELSE "applied"
            /\ last' = [op |-> "ApplyPatches", object |-> last.object,
                        patches |-> last.patches, before |-> heap,
                        status |-> a.r, steps |-> a.steps, ub |-> a.ub]
    /\ UNCHANGED <<kids, detached, freed>>

ApplyNextStep == ApplyCall

SpecApply == ApplyInit /\ [][ApplyNextStep]_vars

\* the i-th operation of the patch array, counted from 1
PatchAt(i) == NthFrom(last.before, last.before[last.patches].child, i - 1)

\* the heap after the first i operations of the patch array were applied in
\* array order, each on the heap the one before left
RECURSIVE HeapAfter(_)
HeapAfter(i) ==
    IF i = 0 THEN last.before
    ELSE apply_patch(HeapAfter(i - 1), last.object, PatchAt(i)).h

\* the status of the i-th operation applied after the first i - 1
StatusAt(i) == apply_patch(HeapAfter(i - 1), last.object, PatchAt(i)).r

\* the number of operations in the patch array
PatchCount == Len(AbsItems(last.before, last.before[last.patches].child))

\* C7: for a patch array, sbJSONUtils_ApplyPatches applies the operations in
\* array order, each on the document the earlier ones left; it stops at the
\* first operation whose status is not 0 and returns that status, leaving
\* the document as it was when that operation returned, with no later
\* operation applied; it returns 0 exactly when every operation of the array
\* was applied with status 0.
C7_InOrder ==
    (pc = "applied" /\ sbJSON_IsArray(last.before, last.patches)) =>
        /\ Len(last.steps) <= PatchCount
        /\ \A i \in 1..Len(last.steps) :
              /\ last.steps[i].patch = PatchAt(i)
              /\ last.steps[i].status = StatusAt(i)
              /\ i < Len(last.steps) => last.steps[i].status = 0
        /\ heap = HeapAfter(Len(last.steps))
        /\ Len(last.steps) < PatchCount =>
              Len(last.steps) > 0 /\ last.steps[Len(last.steps)].status # 0
        /\ last.status =
              IF Len(last.steps) > 0
              THEN last.steps[Len(last.steps)].status ELSE 0
        /\ last.status = 0 <=>
              /\ Len(last.steps) = PatchCount
              /\ \A i \in 1..PatchCount : StatusAt(i) = 0

\* three operations, the first changed the document, the second failed and
\* the third was not applied
C7_Witness ==
    /\ pc = "applied"
    /\ PatchCount = 3
    /\ Len(last.steps) = 2
    /\ last.steps[1].status = 0
    /\ HeapAfter(1) # last.before
    /\ last.status # 0
    /\ heap = HeapAfter(2)

-----------------------------------------------------------------------------
(* Comparison: the caller builds two values, or takes one value twice, and *)
(* calls sbJSON_Compare once.                                              *)

\* the arrays and objects of the comparison inputs have at most this many
\* items
MaxCompareWidth == 2

CompareObjects ==
    ObjectsOver({KeyA, KeyUpperA, KeyB}, {VStr(<<"x">>), VStr(<<"y">>)},
                MaxCompareWidth)

CompareArrays ==
    {VArr(s) : s \in SeqUpTo({VStr(<<"x">>), VStr(<<"y">>)}, MaxCompareWidth)}

CompareNested ==
    {VArr(<<VArr(<<>>)>>), VArr(<<VArr(<<VStr(<<"x">>)>>)>>),
     VObj(<<Member(KeyA, VObj(<<Member(KeyB, VStr(<<"x">>))>>))>>),
     VObj(<<Member(KeyA, VObj(<<Member(<<"B">>, VStr(<<"x">>))>>))>>)}

CompareLeaves == {VNull, VTrue, VFalse, VInt(0), VInt(1), VDbl(1), VStr(<<"x">>)}

\* a NULL pointer, and a node of all zero bytes (type sbJSON_Invalid)
NullPointer == [k |-> "nullptr"]

InvalidNode == [k |-> "invalid"]

CompareInputs ==
    CompareObjects \cup CompareArrays \cup CompareNested \cup CompareLeaves
        \cup {NullPointer, InvalidNode}

CompareBuild(h, v) ==
    IF v = NullPointer THEN [h |-> h, r |-> NULL]
    ELSE IF v = InvalidNode THEN NewWith(h, ZeroNode)
    ELSE BuildTree(h, v)

CompareInit ==
    /\ \E v, w \in CompareInputs, same, case_sensitive \in BOOLEAN :
         LET a == CompareBuild(<<>>, v)
             b == IF same THEN a ELSE CompareBuild(a.h, w)
         IN /\ heap = b.h
            /\ last = [op |-> "BuildTree", a |-> a.r, b |-> b.r,
                       case_sensitive |-> case_sensitive]
    /\ kids = <<>>
    /\ detached = {}
    /\ freed = <<>>
    /\ pc = "built"

\* r = sbJSON_Compare(a, b, case_sensitive)
CompareCall ==
    /\ pc = "built"
    /\ pc' = "compared"
    /\ last' = [op |-> "Compare", a |-> last.a, b |-> last.b,
                case_sensitive |-> last.case_sensitive,
                r |-> sbJSON_Compare(heap, last.a, last.b, last.case_sensitive)]
    /\ UNCHANGED <<heap, kids, detached, freed>>

CompareNext == CompareCall

SpecCompare == CompareInit /\ [][CompareNext]_vars

\* C8: sbJSON_Compare(v, v, case_sensitive) is true for every v, a node of
\* type Invalid and a NULL pointer (compared with a NULL pointer) included.
C8_Reflexive == (pc = "compared" /\ last.a = last.b) => last.r

\* a node of type Invalid was compared with itself and the result was false
C8_Witness ==
    /\ pc = "compared"
    /\ last.a = last.b
    /\ last.a # NULL
    /\ heap[last.a].type = "Invalid"
    /\ ~last.r

\* a key as the lookup reads it: byte by byte when exact, else with the
\* ASCII upper-case letters lowered
KeyRead(key, exact) ==
    IF exact THEN key ELSE [i \in DOMAIN key |-> tolower(key[i])]

MemberKeys(h, object, exact) ==
    {KeyRead(h[c].string.s, exact) : c \in Range(ChildList(h, object))}

DistinctKeys(h, object, exact) ==
    Cardinality(MemberKeys(h, object, exact)) = Len(ChildList(h, object))

\* the same key set, and the values under each key compare equal
SameMembers(h, a, b, exact, case_sensitive) ==
    /\ MemberKeys(h, a, exact) = MemberKeys(h, b, exact)
    /\ \A m \in Range(ChildList(h, a)), n \in Range(ChildList(h, b)) :
          KeyRead(h[m].string.s, exact) = KeyRead(h[n].string.s, exact)
              => sbJSON_Compare(h, m, n, case_sensitive)

\* the same length, and the elements at each position compare equal
SameElements(h, a, b, case_sensitive) ==
    /\ Len(ChildList(h, a)) = Len(ChildList(h, b))
    /\ \A i \in 1..Len(ChildList(h, a)) :
          sbJSON_Compare(h, ChildList(h, a)[i], ChildList(h, b)[i],
                         case_sensitive)

BothOfType(type) ==
    /\ pc = "compared"
    /\ last.a # NULL
    /\ last.b # NULL
    /\ heap[last.a].type = type
    /\ heap[last.b].type = type

\* the statement of C9 with the keys read as exact says
CompareStructural(exact) ==
    /\ (/\ BothOfType("Object")
        /\ DistinctKeys(heap, last.a, exact)
        /\ DistinctKeys(heap, last.b, exact))
          => (last.r <=> SameMembers(heap, last.a, last.b, exact,
                                     last.case_sensitive))
    /\ BothOfType("Array")
          => (last.r <=> SameElements(heap, last.a, last.b,
                                      last.case_sensitive))

\* C9 (as stated): for two Objects, each with pairwise distinct keys,
\* sbJSON_Compare is true exactly when both have the same key set and the
\* values under each key compare equal, whatever the member order; for two
\* Arrays exactly when they have the same length and the elements at each
\* position compare equal.
C9_Original == CompareStructural(TRUE)

\* C9 (amended): the same, with the keys read as case_sensitive selects:
\* byte by byte when it is true, ignoring ASCII case when it is false, the
\* keys of each Object pairwise distinct under that reading.
C9_Structural == CompareStructural(last.case_sensitive)

\* {"a": ...} and {"A": ...} with equal values compared ignoring case: the
\* key sets differ byte by byte and the result is true
C9_Witness ==
    /\ BothOfType("Object")
    /\ ~last.case_sensitive
    /\ last.a # last.b
    /\ MemberKeys(heap, last.a, TRUE) = {KeyA}
    /\ MemberKeys(heap, last.b, TRUE) = {KeyUpperA}
    /\ last.r

-----------------------------------------------------------------------------
(* Nesting: the caller parses a text of nested arrays and objects, whole   *)
(* or cut off before the closing brackets.                                 *)

NestOpen(k) == IF k = "[" THEN <<"[">> ELSE <<"{", "\"", "a", "\"", ":">>

NestClose(k) == IF k = "[" THEN <<"]">> ELSE <<"}">>

\* leaf enclosed by the containers ks, outermost first
RECURSIVE Nested(_, _)
Nested(ks, leaf) ==
    IF ks = <<>> THEN leaf
    ELSE NestOpen(Head(ks)) \o Nested(Tail(ks), leaf) \o NestClose(Head(ks))

\* the same without the closing brackets
RECURSIVE Unclosed(_, _)
Unclosed(ks, leaf) ==
    IF ks = <<>> THEN leaf ELSE NestOpen(Head(ks)) \o Unclosed(Tail(ks), leaf)

\* the same as second element of an array whose first element [[0]] has
\* been closed
Second(ks, leaf) ==
    <<"[", "[", "[", "0", "]", "]", ",">> \o Nested(ks, leaf) \o <<"]">>

NestLeaves == {<<"0">>, <<"[", "]">>, <<"{", "}">>}

\* up to one container more than the limit lets through
NestTexts ==
    UNION {{Nested(ks, leaf), Unclosed(ks, leaf), Second(ks, leaf)} :
              ks \in SeqUpTo({"[", "{"}, CJSON_NESTING_LIMIT + 1),
              leaf \in NestLeaves}

NestInit ==
    /\ \E text \in NestTexts : last = [op |-> "text", text |-> text]
    /\ heap = <<>>
    /\ kids = <<>>
    /\ detached = {}
    /\ freed = <<>>
    /\ pc = "text"

\* r = sbJSON_Parse(text)
NestParse ==
    /\ pc = "text"
    /\ LET p == sbJSON_Parse(heap, StrPtr(last.text, "ext")) IN
         /\ heap' = p.h
         /\ freed' = p.pb.freed
         /\ last' = [op |-> "Parse", text |-> last.text, r |-> p.r,
                     trace |-> p.pb.trace]
    /\ pc' = "parsed"
    /\ UNCHANGED <<kids, detached>>

NestNext == NestParse

SpecNest == NestInit /\ [][NestNext]_vars

\* the number of containers the first i characters of text leave open
RECURSIVE Opened(_, _)
Opened(text, i) ==
    IF i = 0 THEN 0
    ELSE Opened(text, i - 1)
           + (IF text[i] \in {"[", "{"} THEN 1
              ELSE IF text[i] \in {"]", "}"} THEN -1 ELSE 0)

\* for each value of text, the number of open containers that enclose it
Enclosures(text) ==
    {Opened(text, i - 1) : i \in {j \in DOMAIN text : text[j] \in {"[", "{", "0"}}}

-----------------------------------------------------------------------------
(* Parse errors: the caller parses a short text through sbJSON_ParseWithOpts *)
(* (a NUL-terminated string) or sbJSON_ParseWithLengthOpts (a buffer of    *)
(* exactly the bytes of the text), with or without return_parse_end.       *)

\* the texts of the parse-error inputs have at most this many characters
MaxTextLen == 4

ErrorTexts == SeqUpTo({"[", "]", "1", ",", " ", "\""}, MaxTextLen)

\* global_error after the call returned p for value: reset to {NULL, 0}
\* first, set to {value, position} at the label `fail' when value is not
\* NULL
GlobalError(value, p) ==
    IF value # NULLP /\ p.r = NULL
    THEN [json |-> value, position |-> p.position]
    ELSE [json |-> NULLP, position |-> 0]

\* sbJSON_GetErrorPtr: global_error.json + global_error.position, a pointer
\* offset bytes into the block base; NULL + 0 is NULL
sbJSON_GetErrorPtr(global_error) ==
    IF global_error.json = NULLP THEN NULLP
    ELSE [base |-> global_error.json, offset |-> global_error.position]

\* *return_parse_end after the call: written unless value is NULL
ReturnParseEnd(value, p, old) ==
    IF value = NULLP THEN old ELSE [base |-> value, offset |-> p.parse_end]

ErrorInit ==
    /\ \E text \in ErrorTexts, entry \in {"ParseWithOpts", "ParseWithLengthOpts"},
          require_null_terminated \in BOOLEAN :
         last = [op |-> "text", text |-> text, entry |-> entry,
                 require_null_terminated |-> require_null_terminated]
    /\ heap = <<>>
    /\ kids = <<>>
    /\ detached = {}
    /\ freed = <<>>
    /\ pc = "text"

\* what the call of last.entry on value returns
ErrorParse(value) ==
    IF last.entry = "ParseWithOpts"
    THEN sbJSON_ParseWithOpts(heap, value, last.require_null_terminated)
    ELSE sbJSON_ParseWithLengthOpts(heap, value, Len(last.text),
                                    last.require_null_terminated)

\* the outcome p of the call on value, return_parse_end supplied or NULL
ErrorParsed(value, p, supplied) ==
    /\ heap' = p.h
    /\ freed' = p.pb.freed
    /\ last' = [op |-> last.entry, text |-> last.text, value |-> value,
                buffer_length |-> IF last.entry = "ParseWithOpts"
                                  THEN Len(last.text) + 1 ELSE Len(last.text),
                r |-> p.r, supplied |-> supplied,
                error_ptr |-> sbJSON_GetErrorPtr(GlobalError(value, p)),
                parse_end |-> IF supplied
                              THEN ReturnParseEnd(value, p, NULLP) ELSE NULLP]
    /\ pc' = "parsed"
    /\ UNCHANGED <<kids, detached>>

\* r = sbJSON_ParseWithOpts(text, &parse_end or NULL, require_null_terminated)
\* or the same through sbJSON_ParseWithLengthOpts
ErrorCall ==
    /\ pc = "text"
    /\ \E supplied \in BOOLEAN :
         ErrorParsed(StrPtr(last.text, "ext"),
                     ErrorParse(StrPtr(last.text, "ext")), supplied)

\* the same with value NULL
ErrorCallNull ==
    /\ pc = "text"
    /\ last.text = <<>>
    /\ \E supplied \in BOOLEAN : ErrorParsed(NULLP, ErrorParse(NULLP), supplied)

ErrorNext == ErrorCall \/ ErrorCallNull

SpecError == ErrorInit /\ [][ErrorNext]_vars

\* a parse of a buffer failed
ParseFailed == pc = "parsed" /\ last.value # NULLP /\ last.r = NULL

\* the tree is deleted, each block released once, and the two error
\* pointers agree and point into the block of value
ErrorRecorded ==
    /\ heap = <<>>
    /\ \A i, j \in DOMAIN freed : i # j => freed[i] # freed[j]
    /\ last.error_ptr # NULLP
    /\ last.error_ptr.base = last.value
    /\ last.supplied => last.parse_end = last.error_ptr

-----------------------------------------------------------------------------
(* Byte order mark: the caller parses a text alone and behind the three    *)
(* bytes of the UTF-8 BOM, through the same entry point, and compares the  *)
(* two results.                                                            *)

Bom == <<"xEF", "xBB", "xBF">>

\* what the call of last.entry on the bytes of text returns
BomParse(h, text) ==
    IF last.entry = "ParseWithOpts"
    THEN sbJSON_ParseWithOpts(h, StrPtr(text, "ext"),
                              last.require_null_terminated)
    ELSE sbJSON_ParseWithLengthOpts(h, StrPtr(text, "ext"), Len(text),
                                    last.require_null_terminated)

\* without = parse(text)
BomFirst ==
    /\ pc = "text"
    /\ LET without == BomParse(heap, last.text) IN
         /\ heap' = without.h
         /\ last' = [op |-> "first", text |-> last.text, entry |-> last.entry,
                     require_null_terminated |-> last.require_null_terminated,
                     without |-> without.r]
    /\ pc' = "first"
    /\ UNCHANGED <<kids, detached, freed>>

\* with = parse(BOM text)
BomSecond ==
    /\ pc = "first"
    /\ LET with == BomParse(heap, Bom \o last.text) IN
         /\ heap' = with.h
         /\ last' = [op |-> "second", text |-> last.text, entry |-> last.entry,
                     without |-> last.without, with |-> with.r]
    /\ pc' = "second"
    /\ UNCHANGED <<kids, detached, freed>>

\* equal = sbJSON_Compare(without, with, true)
BomCompare ==
    /\ pc = "second"
    /\ last' = [op |-> last.entry, text |-> last.text,
                without |-> last.without, with |-> last.with,
                equal |-> sbJSON_Compare(heap, last.without, last.with, TRUE)]
    /\ pc' = "compared"
    /\ UNCHANGED <<heap, kids, detached, freed>>

BomNext == BomFirst \/ BomSecond \/ BomCompare

SpecBom == ErrorInit /\ [][BomNext]_vars

\* C12: for every document text d, parsing the UTF-8 BOM followed by d gives
\* the same outcome as parsing d alone: both fail, or both succeed with
\* equal trees, through sbJSON_ParseWithOpts on a NUL-terminated string and
\* through sbJSON_ParseWithLengthOpts with the exact number of bytes.
C12_BomSkipped ==
    pc = "compared" =>
        /\ last.with = NULL <=> last.without = NULL
        /\ last.with # NULL => last.equal

\* the one-byte document 1 in a buffer of its exact length parses alone and
\* fails behind the BOM
C12_Witness ==
    /\ pc = "compared"
    /\ last.op = "ParseWithLengthOpts"
    /\ last.text = <<"1">>
    /\ last.without # NULL
    /\ last.with = NULL

-----------------------------------------------------------------------------
(* Number literals: the caller parses a number literal, alone or as the    *)
(* only element of an array.                                               *)

Literal(int, frac, exp) == int \o frac \o exp

\* the literals of the JSON grammar built from a few integer parts,
\* fractions and exponents
SmallLiterals ==
    {Literal(int, frac, exp) :
        int \in {<<"0">>, <<"1">>, <<"1", "0">>, <<"-", "1">>},
        frac \in {<<>>, <<".", "5">>, <<".", "0">>},
        exp \in {<<>>, <<"e", "1">>, <<"E", "1">>, <<"e", "-", "1">>,
                 <<"E", "+", "1">>, <<"E", "1", "0">>, <<"E", "-", "1", "0">>}}

\* 2^31, LLONG_MAX, LLONG_MAX + 1, LLONG_MIN, LLONG_MIN - 1 and 2^64
BigLiterals ==
    {<<"2", "1", "4", "7", "4", "8", "3", "6", "4", "8">>,
     LLONG_MAX_digits, LLONG_MIN_digits, <<"-">> \o LLONG_MIN_digits,
     <<"-", "9", "2", "2", "3", "3", "7", "2", "0", "3", "6", "8", "5", "4",
       "7", "7", "5", "8", "0", "9">>,
     <<"1", "8", "4", "4", "6", "7", "4", "4", "0", "7", "3", "7", "0", "9",
       "5", "5", "1", "6", "1", "6">>}

NumberInit ==
    /\ \E literal \in SmallLiterals \cup BigLiterals,
          wrapped, require_null_terminated \in BOOLEAN :
         last = [op |-> "text", literal |-> literal, wrapped |-> wrapped,
                 require_null_terminated |-> require_null_terminated]
    /\ heap = <<>>
    /\ kids = <<>>
    /\ detached = {}
    /\ freed = <<>>
    /\ pc = "text"

\* the outcome p of the parse: node is the root, or its first child when the
\* literal went into an array
NumberParsed(p) ==
    /\ heap' = p.h
    /\ freed' = p.pb.freed
    /\ last' = [op |-> "ParseWithOpts", literal |-> last.literal,
                wrapped |-> last.wrapped, r |-> p.r,
                node |-> IF p.r # NULL /\ last.wrapped THEN p.h[p.r].child
                         ELSE p.r,
                parse_end |-> p.parse_end]

\* r = sbJSON_ParseWithOpts(literal or [literal], &parse_end,
\*                          require_null_terminated)
NumberCall ==
    /\ pc = "text"
    /\ NumberParsed(sbJSON_ParseWithOpts(
                        heap,
                        StrPtr(IF last.wrapped
                               THEN <<"[">> \o last.literal \o <<"]">>
                               ELSE last.literal, "ext"),
                        last.require_null_terminated))
    /\ pc' = "parsed"
    /\ UNCHANGED <<kids, detached>>

NumberNext == NumberCall

SpecNumber == NumberInit /\ [][NumberNext]_vars

\* the literal has a fraction or an exponent
IsDecimal(literal) == \E c \in Range(literal) : c \in {".", "e", "E"}

\* the digits of the literal, its sign apart
LiteralDigits(literal) ==
    StripLeadingZeros(IF Head(literal) = "-" THEN Tail(literal) ELSE literal)

\* the integer the literal denotes is outside the range of int64_t
OutOfRange(literal) ==
    IF Head(literal) = "-"
    THEN DigitsAbove(LiteralDigits(literal), LLONG_MIN_digits)
    ELSE DigitsAbove(LiteralDigits(literal), LLONG_MAX_digits)

\* the parse gave a Number node
NumberNode ==
    /\ last.node # NULL
    /\ heap[last.node].type = "Number"

\* C13: a number literal is parsed as a double (is_number_double true)
\* exactly when it contains '.', 'e' or 'E', and as a 64-bit integer
\* otherwise (the literals here are in the range of int64_t); 1E10 and
\* 1E-10 yield double nodes.
C13_Classified ==
    (pc = "parsed" /\ ~OutOfRange(last.literal)) =>
        /\ NumberNode
        /\ heap[last.node].is_number_double <=> IsDecimal(last.literal)

\* the literal 1E10 alone gave the integer node 1, the parse ending behind
\* the first character
C13_Witness ==
    /\ pc = "parsed"
    /\ last.literal = <<"1", "E", "1", "0">>
    /\ ~last.wrapped
    /\ NumberNode
    /\ ~heap[last.node].is_number_double
    /\ heap[last.node].u = IntBits(1)
    /\ last.parse_end = 1

\* C14: a number literal without '.', 'e' or 'E' whose value is outside the
\* range of int64_t is stored as a double node, never as an integer node.
C14_OverflowIsDouble ==
    (pc = "parsed" /\ ~IsDecimal(last.literal) /\ OutOfRange(last.literal)) =>
        /\ NumberNode
        /\ heap[last.node].is_number_double

\* 2^64 gave an integer node that holds LLONG_MAX
C14_Witness ==
    /\ pc = "parsed"
    /\ Len(last.literal) = 20
    /\ Head(last.literal) = "1"
    /\ NumberNode
    /\ ~heap[last.node].is_number_double
    /\ heap[last.node].u = Int64Bits(FALSE, LLONG_MAX_digits)

-----------------------------------------------------------------------------
(* String literals: the caller parses a string literal made of a few       *)
(* pieces: plain characters, simple escapes and \u escapes.                *)

MaxPieces == 3

Backslash == "\\"

\* the four characters behind \u: A, e with acute, a high surrogate, a low
\* surrogate, and two that are not four hexadecimal digits
Quads ==
    {<<"0", "0", "4", "1">>, <<"0", "0", "e", "9">>, <<"D", "8", "0", "0">>,
     <<"D", "C", "0", "0">>, <<"1", "2", "h", "4">>, <<"h", "h", "h", "h">>}

Pieces ==
    {<<"x">>, <<Backslash, "n">>, <<Backslash, "u">>,
     <<Backslash, "u", "1", "2">>}
    \cup {<<Backslash, "u">> \o quad : quad \in Quads}

RECURSIVE Flatten(_)
Flatten(pieces) ==
    IF pieces = <<>> THEN <<>> ELSE Head(pieces) \o Flatten(Tail(pieces))

StringBodies == {Flatten(pieces) : pieces \in SeqUpTo(Pieces, MaxPieces)}

StringInit ==
    /\ \E body \in StringBodies :
         last = [op |-> "text", body |-> body]
    /\ heap = <<>>
    /\ kids = <<>>
    /\ detached = {}
    /\ freed = <<>>
    /\ pc = "text"

StringParsed(p) ==
    /\ heap' = p.h
    /\ freed' = p.pb.freed
    /\ last' = [op |-> "Parse", body |-> last.body, r |-> p.r]

\* r = sbJSON_Parse("body" in quotes)
StringCall ==
    /\ pc = "text"
    /\ StringParsed(sbJSON_ParseWithOpts(
                        heap, StrPtr(<<"\"">> \o last.body \o <<"\"">>, "ext"),
                        FALSE))
    /\ pc' = "parsed"
    /\ UNCHANGED <<kids, detached>>

StringNext == StringCall

SpecString == StringInit /\ [][StringNext]_vars

\* the four characters of body from index i (from 1) are hexadecimal digits
FourHex(body, i) ==
    /\ i + 3 <= Len(body)
    /\ \A k \in 0..3 : HexVal(body[i + k]) >= 0

\* the number they denote
Hex4(body, i) ==
    ((HexVal(body[i]) * 16 + HexVal(body[i + 1])) * 16 + HexVal(body[i + 2]))
        * 16 + HexVal(body[i + 3])

HighSurrogate(code) == code >= 55296 /\ code <= 56319

LowSurrogate(code) == code >= 56320 /\ code <= 57343

\* a \u escape with a low surrogate starts at index i of body
LowAt(body, i) ==
    /\ i + 1 <= Len(body)
    /\ body[i] = Backslash
    /\ body[i + 1] = "u"
    /\ FourHex(body, i + 2)
    /\ LowSurrogate(Hex4(body, i + 2))

\* body, read from index i, contains a \u escape that is not followed by
\* four hexadecimal digits or is cut short by the end of the string, a low
\* surrogate without a high one before it, or a high surrogate without a
\* \u low surrogate behind it
RECURSIVE BadEscape(_, _)
BadEscape(body, i) ==
    IF i > Len(body) THEN FALSE
    ELSE IF body[i] # Backslash THEN BadEscape(body, i + 1)
    ELSE IF i + 1 > Len(body) \/ body[i + 1] # "u" THEN BadEscape(body, i + 2)
    ELSE IF ~FourHex(body, i + 2) THEN TRUE
    ELSE IF LowSurrogate(Hex4(body, i + 2)) THEN TRUE
    ELSE IF HighSurrogate(Hex4(body, i + 2))
    THEN IF LowAt(body, i + 6) THEN BadEscape(body, i + 12) ELSE TRUE
    ELSE BadEscape(body, i + 6)

\* C15: parsing a string literal fails whenever it contains a \u escape
\* that is not followed by four hexadecimal digits or is cut short by the
\* end of the string, a low surrogate without a preceding high surrogate,
\* or a high surrogate not followed by a \u low surrogate.
C15_BadEscapeFails ==
    (pc = "parsed" /\ BadEscape(last.body, 1)) => last.r = NULL

\* "\uhhhh" was accepted as the empty string
C15_Witness ==
    /\ pc = "parsed"
    /\ last.body = <<Backslash, "u", "h", "h", "h", "h">>
    /\ last.r # NULL
    /\ heap[last.r].type = "String"
    /\ heap[last.r].u.s = <<>>

-----------------------------------------------------------------------------
(* Array index tokens: the caller builds an array of integers and resolves *)
(* a pointer of one token against it.                                      *)

MaxTokenLen == 2

\* the longest of the arrays: the token "1:" decodes to its last index
LongLength == 21

IndexLengths == {0, 1, 2, 3, LongLength}

IndexTokens == SeqUpTo({"0", "1", "2", ":", "a", "-"}, MaxTokenLen)

\* the array [0, 1, ..., n - 1]
Counting(n) == VArr([i \in 1..n |-> VInt(i - 1)])

IndexInit ==
    /\ \E n \in IndexLengths, token \in IndexTokens :
         LET array == BuildTree(<<>>, Counting(n))
         IN /\ heap = array.h
            /\ last = [op |-> "BuildTree", array |-> array.r, token |-> token]
    /\ kids = <<>>
    /\ detached = {}
    /\ freed = <<>>
    /\ pc = "built"

\* r = sbJSONUtils_GetPointer(array, "/" token)
IndexCall ==
    /\ pc = "built"
    /\ last' = [op |-> "GetPointer", array |-> last.array,
                token |-> last.token,
                r |-> sbJSONUtils_GetPointer(
                          heap, last.array,
                          StrPtr(<<"/">> \o last.token, "ext"))]
    /\ pc' = "resolved"
    /\ UNCHANGED <<heap, kids, detached, freed>>

IndexNext == IndexCall

SpecIndex == IndexInit /\ [][IndexNext]_vars

\* token is "0" or a non-empty string of decimal digits without a leading
\* zero
IndexToken(token) ==
    /\ token # <<>>
    /\ \A i \in 1..Len(token) : token[i] \in Digits
    /\ Len(token) = 1 \/ token[1] # "0"

\* C16: a token that addresses an array resolves only if it is "0" or a
\* non-empty string of decimal digits without a leading zero whose value is
\* below the array length, and then selects the element at that index;
\* every other token makes the resolution fail.
C16_ArrayToken ==
    pc = "resolved" =>
        IF IndexToken(last.token)
           /\ StrToNat(last.token) < Len(ChildList(heap, last.array))
        THEN last.r = ChildList(heap, last.array)[StrToNat(last.token) + 1]
        ELSE last.r = NULL

\* the empty token resolved to the first element of an array
C16_Witness ==
    /\ pc = "resolved"
    /\ last.token = <<>>
    /\ Len(ChildList(heap, last.array)) = 2
    /\ last.r = ChildList(heap, last.array)[1]

-----------------------------------------------------------------------------
(* sbJSONUtils_FindPointerFromObjectTo, and the caller that resolves a     *)
(* pointer in a tree and asks for the pointer to the node it got.          *)

\* the pointer sbJSONUtils_FindPointerFromObjectTo returns once the target
\* has been found under the child current_child of object, target_pointer
\* being the pointer from that child to the target
PointerTo(h, object, current_child, child_index, target_pointer) ==
    IF sbJSON_IsArray(h, object)
    THEN StrPtr(<<"/">> \o NatToStr(child_index) \o target_pointer.s, "heap")
    ELSE IF sbJSON_IsObject(h, object)
    THEN StrPtr(<<"/">> \o encode_string_as_pointer(h[current_child].string.s)
                    \o target_pointer.s, "heap")
    ELSE NULLP

RECURSIVE sbJSONUtils_FindPointerFromObjectTo(_, _, _),
          FindInChildren(_, _, _, _, _), FindInChild(_, _, _, _, _, _)
sbJSONUtils_FindPointerFromObjectTo(h, object, target) ==
    IF object = NULL \/ target = NULL THEN NULLP
    ELSE IF object = target THEN StrPtr(<<>>, "heap")
    ELSE FindInChildren(h, object, target, h[object].child, 0)

\* the for loop over the children of object, from current_child
FindInChildren(h, object, target, current_child, child_index) ==
    IF current_child = NULL THEN NULLP
    ELSE FindInChild(h, object, target, current_child, child_index,
                     sbJSONUtils_FindPointerFromObjectTo(h, current_child,
                                                         target))

\* the body of the loop, target_pointer being what the search under
\* current_child returned
FindInChild(h, object, target, current_child, child_index, target_pointer) ==
    IF target_pointer # NULLP
    THEN PointerTo(h, object, current_child, child_index, target_pointer)
    ELSE FindInChildren(h, object, target, h[current_child].next,
                        child_index + 1)

MaxFindWidth == 2

MaxPointerTokens == 2

KeyEmpty == <<>>

KeySolidus == <<"/">>

KeyTilde == <<"~">>

FindKeys == {KeyA, KeyEmpty, KeySolidus, KeyTilde}

\* the tokens of the pointers: indices and escaped keys
FindTokens == {<<"0">>, <<"1">>} \cup {encode_string_as_pointer(k) : k \in FindKeys}

FindInner ==
    {VInt(1)} \cup {VArr(s) : s \in SeqUpTo({VInt(1)}, MaxFindWidth)}
      \cup ObjectsOver({KeyA, KeySolidus}, {VInt(1)}, 1)

FindInputs ==
    FindInner
      \cup {VArr(s) : s \in SeqUpTo(FindInner, MaxFindWidth)}
      \cup ObjectsOver(FindKeys, FindInner, MaxFindWidth)
      \cup {VObj(<<Member(KeyA, VInt(1)), Member(KeyA, VArr(<<VInt(1)>>))>>)}

\* the pointer made of the tokens
RECURSIVE PointerOf(_)
PointerOf(tokens) ==
    IF tokens = <<>> THEN <<>>
    ELSE <<"/">> \o Head(tokens) \o PointerOf(Tail(tokens))

FindInit ==
    /\ \E v \in FindInputs, tokens \in SeqUpTo(FindTokens, MaxPointerTokens) :
         LET root == BuildTree(<<>>, v)
         IN /\ heap = root.h
            /\ last = [op |-> "BuildTree", root |-> root.r, tokens |-> tokens]
    /\ kids = <<>>
    /\ detached = {}
    /\ freed = <<>>
    /\ pc = "built"

\* target = sbJSONUtils_GetPointer(root, p)
FindResolve ==
    /\ pc = "built"
    /\ last' = [op |-> "GetPointer", root |-> last.root,
                tokens |-> last.tokens,
                target |-> sbJSONUtils_GetPointer(
                               heap, last.root,
                               StrPtr(PointerOf(last.tokens), "ext"))]
    /\ pc' = "resolved"
    /\ UNCHANGED <<heap, kids, detached, freed>>

\* found = sbJSONUtils_FindPointerFromObjectTo(root, target)
FindCall ==
    /\ pc = "resolved"
    /\ last' = [op |-> "FindPointerFromObjectTo", root |-> last.root,
                tokens |-> last.tokens, target |-> last.target,
                found |-> sbJSONUtils_FindPointerFromObjectTo(
                              heap, last.root, last.target)]
    /\ pc' = "found"
    /\ UNCHANGED <<heap, kids, detached, freed>>

FindNext == FindResolve \/ FindCall

SpecFind == FindInit /\ [][FindNext]_vars

\* C17: for every tree and every pointer p built from canonical tokens that
\* resolves to a node, FindPointerFromObjectTo(root, GetPointer(root, p))
\* returns exactly p, the empty string for the root itself.
C17_FindResolved ==
    (pc = "found" /\ last.target # NULL) =>
        /\ last.found # NULLP
        /\ last.found.s = PointerOf(last.tokens)

\* the pointer "/" resolved to the first element of an array and the pointer
\* found to that element is "/0"
C17_Witness ==
    /\ pc = "found"
    /\ last.tokens = <<KeyEmpty>>
    /\ heap[last.root].type = "Array"
    /\ last.target = heap[last.root].child
    /\ last.found = StrPtr(<<"/", "0">>, "heap")

-----------------------------------------------------------------------------
(* The add operations on arguments that may be NULL or the container       *)
(* itself.  A call ends in "return", in "abort" (an assert that failed in  *)
(* a build with assertions) or in "fault" (a NULL pointer was read).       *)

Returned(a) == [h |-> a.h, ok |-> a.r, end |-> "return"]

Aborted(h) == [h |-> h, ok |-> FALSE, end |-> "abort"]

\* add_item_to_array reads array->child of a NULL array: the call faults or
\* goes on to return some value
NullRead(h) ==
    {[h |-> h, ok |-> b, end |-> e] : b \in BOOLEAN, e \in {"fault", "return"}}

\* the outcomes of sbJSON_AddItemToArray(array, item): assert(array != item)
\* aborts the call unless the build has NDEBUG
AddItemToArrayOutcomes(h, array, item) ==
    IF item = NULL THEN {Returned(sbJSON_AddItemToArray(h, array, item))}
    ELSE IF array = item
    THEN {Aborted(h), Returned(sbJSON_AddItemToArray(h, array, item))}
    ELSE IF array = NULL THEN NullRead(h)
    ELSE {Returned(sbJSON_AddItemToArray(h, array, item))}

\* item with the copy of string as its key, as add_item_to_object leaves it
\* before it calls add_item_to_array
KeyWritten(h, string, item) ==
    [h EXCEPT ![item].string = sbJSON_strdup(string),
              ![item].string_is_const = FALSE]

\* the outcomes of add_item_to_object(object, string, item, hooks, false)
AddItemToObjectOutcomes(h, object, string, item) ==
    IF item = NULL
    THEN {Returned(sbJSON_AddItemToObject(h, object, string, item))}
    ELSE IF object = item
    THEN {Aborted(h), Returned(sbJSON_AddItemToObject(h, object, string, item))}
    ELSE IF string # NULLP /\ object = NULL
    THEN NullRead(KeyWritten(h, string, item))
    ELSE {Returned(sbJSON_AddItemToObject(h, object, string, item))}

\* sbJSON_AddNullToObject once add_item_to_object has ended in a, null_item
\* being the new node: the node is deleted when it was not added
AddNullEnd(a, null_item) ==
    IF a.end # "return" THEN a
    ELSE IF a.ok THEN a
    ELSE [h |-> sbJSON_Delete(a.h, null_item).h, ok |-> FALSE, end |-> "return"]

\* the outcomes of sbJSON_AddNullToObject(object, name); ok: the new node was
\* returned, not NULL
AddNullToObjectOutcomes(h, object, name) ==
    {AddNullEnd(a, sbJSON_CreateNull(h).r) :
        a \in AddItemToObjectOutcomes(sbJSON_CreateNull(h).h, object, name,
                                      sbJSON_CreateNull(h).r)}

AddLeaves == {VNull, VInt(1), VStr(KeyA)}

AddInit ==
    /\ \E a \in {VArr(s) : s \in SeqUpTo(AddLeaves, 1)},
          o \in ObjectsOver({KeyB}, AddLeaves, 1), i \in AddLeaves :
         LET array == BuildTree(<<>>, a)
             object == BuildTree(array.h, o)
             item == BuildTree(object.h, i)
         IN /\ heap = item.h
            /\ last = [op |-> "BuildTree", array |-> array.r,
                       object |-> object.r, item |-> item.r]
    /\ kids = <<>>
    /\ detached = {}
    /\ freed = <<>>
    /\ pc = "built"

\* the call op(container, key, item) ended in a
AddEnded(op, container, key, item, a) ==
    /\ heap' = a.h
    /\ last' = [op |-> op, container |-> container, key |-> key,
                item |-> item, ok |-> a.ok, before |-> heap]
    /\ pc' = a.end
    /\ UNCHANGED <<kids, detached, freed>>

\* sbJSON_AddItemToArray(container, item)
AddCallArray ==
    /\ pc = "built"
    /\ \E container \in {NULL, last.array}, item \in {NULL, last.item, last.array} :
        \E a \in AddItemToArrayOutcomes(heap, container, item) :
            AddEnded("AddItemToArray", container, NULLP, item, a)

\* sbJSON_AddItemToObject(container, key, item)
AddCallObject ==
    /\ pc = "built"
    /\ \E container \in {NULL, last.object},
          key \in {NULLP, StrPtr(KeyA, "ext")},
          item \in {NULL, last.item, last.object} :
        \E a \in AddItemToObjectOutcomes(heap, container, key, item) :
            AddEnded("AddItemToObject", container, key, item, a)

\* sbJSON_AddNullToObject(container, key)
AddCallNull ==
    /\ pc = "built"
    /\ \E container \in {NULL, last.object},
          key \in {NULLP, StrPtr(KeyA, "ext")} :
        \E a \in AddNullToObjectOutcomes(heap, container, key) :
            AddEnded("AddNullToObject", container, key, NULL, a)

AddNext == AddCallArray \/ AddCallObject \/ AddCallNull

SpecAdd == AddInit /\ [][AddNext]_vars

\* a call of an add operation has ended
AddCalled == pc \in {"return", "abort", "fault"}

\* C18: adding a node to itself is rejected: sbJSON_AddItemToArray(a, a)
\* and sbJSON_AddItemToObject(o, key, o) return false and leave the node as
\* it was, so no cycle comes about.
C18_SelfRejected ==
    (AddCalled /\ last.item # NULL /\ last.container = last.item) =>
        /\ pc = "return"
        /\ ~last.ok
        /\ heap = last.before

\* sbJSON_AddItemToArray(a, a) returned true and a is on its own child list
C18_Witness ==
    /\ pc = "return"
    /\ last.op = "AddItemToArray"
    /\ last.item # NULL
    /\ last.container = last.item
    /\ last.ok
    /\ last.item \in Range(ChildList(heap, last.item))

\* one of the arguments of the call is NULL
NullArgument ==
    \/ last.container = NULL
    \/ last.op # "AddNullToObject" /\ last.item = NULL
    \/ last.op # "AddItemToArray" /\ last.key = NULLP

\* C19: called with a NULL container, a NULL key or a NULL item, the add
\* operations return false or NULL without dereferencing the NULL argument
\* and without modifying any existing node.
C19_NullRejected ==
    (AddCalled /\ NullArgument) =>
        /\ pc = "return"
        /\ ~last.ok
        /\ heap = last.before

\* sbJSON_AddNullToObject(NULL, "a") read the NULL container
C19_Witness ==
    /\ pc = "fault"
    /\ last.op = "AddNullToObject"
    /\ last.container = NULL
    /\ last.key # NULLP

-----------------------------------------------------------------------------
(* Allocation failure: hooks->allocate succeeds `left' times and then      *)
(* returns NULL.  A call returns [h, r, left, allocs, failed, freed, ub]:  *)
(* allocs counts the blocks the call allocated, failed says an allocation  *)
(* of the call returned NULL, freed lists the blocks it deallocated.       *)

Ended(h, r, left, allocs, failed, released, ub) ==
    [h |-> h, r |-> r, left |-> left, allocs |-> allocs, failed |-> failed,
     freed |-> released, ub |-> ub]

\* sbJSON_Delete(item) followed by return NULL, d being what sbJSON_Delete
\* gives
Deleted(d, left, allocs, failed, released, ub) ==
    Ended(d.h, NULL, left, allocs, failed, released \o d.freed,
          ub \/ d.ub \/ BadFree(d.freed))

\* add_item_to_object(object, name, item, hooks, false) and the end of an
\* sbJSON_Add<Type>ToObject helper, the item c.r being the new node
AddCreated(c, object, name, left, allocs) ==
    IF name = NULLP
    THEN Deleted(sbJSON_Delete(c.h, c.r), left, allocs, FALSE, <<>>, FALSE)
    ELSE IF left = 0
    THEN Deleted(sbJSON_Delete(c.h, c.r), 0, allocs, TRUE, <<>>, FALSE)
    ELSE Ended(sbJSON_AddItemToObject(c.h, object, name, c.r).h, c.r,
               left - 1, allocs + 1, FALSE, <<>>, FALSE)

sbJSON_AddIntegerNumberToObject(h, object, name, number, left) ==
    IF left = 0 THEN Ended(h, NULL, 0, 0, TRUE, <<>>, FALSE)
    ELSE AddCreated(sbJSON_CreateIntegerNumber(h, number), object, name,
                    left - 1, 1)

\* sbJSON_CreateString deletes its node when the copy of the string fails
sbJSON_AddStringToObject(h, object, name, string, left) ==
    IF left = 0 THEN Ended(h, NULL, 0, 0, TRUE, <<>>, FALSE)
    ELSE IF left = 1
    THEN Deleted(sbJSON_Delete(NewWith(h, [type |-> "String"]).h,
                               NewWith(h, [type |-> "String"]).r),
                 0, 1, TRUE, <<>>, FALSE)
    ELSE AddCreated(sbJSON_CreateString(h, string), object, name, left - 2, 2)

\* the new element n.r linked behind p, or as the first child of a
IntArrayLinked(n, a, p) ==
    IF p = NULL THEN [n.h EXCEPT ![a].child = n.r]
    ELSE suffix_object(n.h, p, n.r)

\* the for loop of sbJSON_CreateIntArray from index i (from 1), p the
\* element created last, and the closing of the prev ring
RECURSIVE IntArrayLoop(_, _, _, _, _, _, _)
IntArrayLoop(h, a, numbers, i, p, left, allocs) ==
    IF i > Len(numbers)
    THEN Ended(IF h[a].child # NULL THEN [h EXCEPT ![h[a].child].prev = p]
               ELSE h, a, left, allocs, FALSE, <<>>, FALSE)
    ELSE IF left = 0
    THEN Deleted(sbJSON_Delete(h, a), 0, allocs, TRUE, <<>>, FALSE)
    ELSE IntArrayLoop(
             IntArrayLinked(sbJSON_CreateIntegerNumber(h, numbers[i]), a, p),
             a, numbers, i + 1, sbJSON_CreateIntegerNumber(h, numbers[i]).r,
             left - 1, allocs + 1)

\* sbJSON_CreateIntArray(numbers, count), numbers being the count numbers
sbJSON_CreateIntArray(h, numbers, left) ==
    IF left = 0 THEN Ended(h, NULL, 0, 0, TRUE, <<>>, FALSE)
    ELSE IntArrayLoop(sbJSON_CreateArray(h).h, sbJSON_CreateArray(h).r,
                      numbers, 1, NULL, left - 1, 1)

\* the fields sbJSON_Duplicate copies before it copies the strings
DuplicateCopied(n) ==
    [type |-> n.type, string_is_const |-> n.string_is_const,
     is_number_double |-> n.is_number_double, u |-> n.u]

\* sbJSON_Duplicate(item, true) under the allocator
RECURSIVE DuplicateOrFail(_, _, _), DuplicateValue(_, _, _, _),
          DuplicateKey(_, _, _, _, _, _), DuplicateLoop(_, _, _, _, _, _, _),
          DuplicateChild(_, _, _, _, _, _, _)
DuplicateOrFail(h, item, left) ==
    IF item = NULL THEN Ended(h, NULL, left, 0, FALSE, <<>>, FALSE)
    ELSE IF left = 0 THEN Ended(h, NULL, 0, 0, TRUE, <<>>, FALSE)
    ELSE DuplicateValue(NewWith(h, DuplicateCopied(h[item])).h,
                        NewWith(h, DuplicateCopied(h[item])).r, item, left - 1)

\* newitem->u.valuestring = sbJSON_strdup(item->u.valuestring): the bits of
\* a number are read as a pointer
DuplicateValue(h, newitem, item, left) ==
    IF h[item].u = NULLP THEN DuplicateKey(h, newitem, item, left, 1, FALSE)
    ELSE IF left = 0
    THEN Deleted(sbJSON_Delete([h EXCEPT ![newitem].u = NULLP], newitem),
                 0, 1, TRUE, <<>>, h[item].u.p # "str")
    ELSE DuplicateKey([h EXCEPT ![newitem].u = DuplicateNode(h[item]).u],
                      newitem, item, left - 1, 2, h[item].u.p # "str")

\* newitem->string = item->string or its copy
DuplicateKey(h, newitem, item, left, allocs, ub) ==
    IF h[item].string = NULLP
    THEN DuplicateLoop(h, newitem, h[item].child, NULL, left, allocs, ub)
    ELSE IF h[item].string_is_const
    THEN DuplicateLoop([h EXCEPT ![newitem].string = h[item].string], newitem,
                       h[item].child, NULL, left, allocs, ub)
    ELSE IF left = 0
    THEN Deleted(sbJSON_Delete(h, newitem), 0, allocs, TRUE, <<>>, ub)
    ELSE DuplicateLoop([h EXCEPT ![newitem].string =
                                     sbJSON_strdup(h[item].string)],
                       newitem, h[item].child, NULL, left - 1, allocs + 1, ub)

\* the while loop over the children and the closing of the prev ring
DuplicateLoop(h, newitem, child, next, left, allocs, ub) ==
    IF child = NULL
    THEN Ended(IF h[newitem].child # NULL
               THEN [h EXCEPT ![h[newitem].child].prev = next] ELSE h,
               newitem, left, allocs, FALSE, <<>>, ub)
    ELSE DuplicateChild(newitem, child, next, allocs, ub,
                        DuplicateOrFail(h, child, left), h[child].next)

\* the body of the loop, d being what the duplication of child returned
DuplicateChild(newitem, child, next, allocs, ub, d, after) ==
    IF d.r = NULL
    THEN Deleted(sbJSON_Delete(d.h, newitem), d.left, allocs + d.allocs,
                 d.failed, d.freed, ub \/ d.ub)
    ELSE DuplicateLoop(IF next # NULL
                       THEN [d.h EXCEPT ![next].next = d.r, ![d.r].prev = next]
                       ELSE [d.h EXCEPT ![newitem].child = d.r],
                       newitem, after, d.r, d.left, allocs + d.allocs,
                       ub \/ d.ub)

\* the allocator lets at most this many allocations succeed
MaxLeft == 5

MaxAllocWidth == 2

AllocValues == {VInt(0), VInt(1), VStr(KeyA), VArr(<<VStr(KeyB)>>)}

AllocInputs ==
    ObjectsOver({KeyA, KeyB}, AllocValues, MaxAllocWidth)
      \cup {VObj(<<MemberCS(KeyA, v)>>) : v \in AllocValues}

AllocInit ==
    /\ \E v \in AllocInputs, left \in 0..MaxLeft :
         LET object == BuildTree(<<>>, v)
         IN /\ heap = object.h
            /\ last = [op |-> "BuildTree", object |-> object.r, left |-> left]
    /\ kids = <<>>
    /\ detached = {}
    /\ freed = <<>>
    /\ pc = "built"

\* the call op ended in e, or faulted where its behaviour is undefined
AllocEnded(op, e) ==
    \E fault \in Faults(e.ub) :
        /\ heap' = IF fault THEN heap ELSE e.h
        /\ freed' = IF fault THEN freed ELSE e.freed
        /\ last' = [op |-> op, object |-> last.object, r |-> e.r,
                    allocs |-> e.allocs, failed |-> e.failed, ub |-> e.ub,
                    before |-> heap]
        /\ pc' = IF fault THEN "fault" ELSE "return"
        /\ UNCHANGED <<kids, detached>>

\* r = sbJSON_AddIntegerNumberToObject(object, "c", number)
AllocAddInteger ==
    /\ pc = "built"
    /\ \E number \in {0, 1} :
         AllocEnded("AddIntegerNumberToObject",
                    sbJSON_AddIntegerNumberToObject(
                        heap, last.object, StrPtr(<<"c">>, "ext"), number,
                        last.left))

\* r = sbJSON_AddStringToObject(object, "c", "a")
AllocAddString ==
    /\ pc = "built"
    /\ AllocEnded("AddStringToObject",
                  sbJSON_AddStringToObject(
                      heap, last.object, StrPtr(<<"c">>, "ext"),
                      StrPtr(KeyA, "ext"), last.left))

\* r = sbJSON_CreateIntArray(numbers, count)
AllocCreateIntArray ==
    /\ pc = "built"
    /\ \E numbers \in SeqUpTo({0, 1}, MaxAllocWidth) :
         AllocEnded("CreateIntArray",
                    sbJSON_CreateIntArray(heap, numbers, last.left))

\* r = sbJSON_Duplicate(object, true)
AllocDuplicate ==
    /\ pc = "built"
    /\ AllocEnded("Duplicate", DuplicateOrFail(heap, last.object, last.left))

AllocNext ==
    \/ AllocAddInteger
    \/ AllocAddString
    \/ AllocCreateIntArray
    \/ AllocDuplicate

SpecAlloc == AllocInit /\ [][AllocNext]_vars

\* an allocation failed during the call
AllocFailed == pc \in {"return", "fault"} /\ last.failed

\* C20: if an allocation fails during an sbJSON_Add<Type>ToObject helper,
\* sbJSON_CreateIntArray or sbJSON_Duplicate, the call returns NULL, every
\* block it had allocated is released exactly once and nothing else is, and
\* the caller's tree is unchanged.
C20_FailureClean ==
    AllocFailed =>
        /\ pc = "return"
        /\ last.r = NULL
        /\ ~last.ub
        /\ Len(freed) = last.allocs
        /\ \A i, j \in 1..Len(freed) : i # j => freed[i] # freed[j]
        /\ heap = last.before

\* sbJSON_CreateIntArray of numbers that start with 1 failed at the second
\* element and handed the bits of the 1 to the deallocator
C20_Witness ==
    /\ pc = "return"
    /\ last.op = "CreateIntArray"
    /\ last.failed
    /\ last.allocs = 2
    /\ last.ub
    /\ BadFree(freed)
    /\ Len(freed) = 3

-----------------------------------------------------------------------------
(* The print buffer: ensure, and a printer that asks for room, writes a    *)
(* string with its terminator and moves the offset behind the string.      *)
(* p = [buffer, length, offset, noalloc, reallocate]: buffer is NULLP or   *)
(* a block of bytes, "?" for a byte that was never written.                *)

\* INT_MAX of the platform, scaled down
INT_MAX == 31

\* a block of size bytes fresh from hooks.allocate
Block(bytes) == [p |-> "block", bytes |-> bytes]

FreshBlock(size) == Block([i \in 1..size |-> "?"])

\* hooks.reallocate(buffer, newsize): the block keeps its bytes
Reallocated(buffer, newsize) ==
    Block([i \in 1..newsize |->
              IF i <= Len(buffer.bytes) THEN buffer.bytes[i] ELSE "?"])

\* memcpy(newbuffer, p->buffer, count) into a fresh block of newsize bytes;
\* a byte behind the end of the old block reads as "?"
Copied(buffer, newsize, count) ==
    Block([i \in 1..newsize |->
              IF i <= count /\ i <= Len(buffer.bytes) THEN buffer.bytes[i]
              ELSE "?"])

\* the new buffer size with the doubling left uncapped
NewSize_uncapped(needed) == needed * 2

\* the new buffer size ensure calculates, 0 where it returns NULL
NewSize(needed) ==
    IF needed > INT_MAX \div 2
    THEN IF needed <= INT_MAX THEN INT_MAX ELSE 0
    ELSE needed * 2

\* ensure returns NULL and leaves p as q
EnsureNull(q) == [p |-> q, ok |-> FALSE, at |-> 0, ub |-> FALSE]

\* ensure once it has to grow the buffer to newsize bytes; allocates: the
\* hook returns a block
EnsureGrow(p, newsize, allocates) ==
    IF newsize = 0 THEN EnsureNull(p)
    ELSE IF ~allocates
    THEN EnsureNull([p EXCEPT !.length = 0, !.buffer = NULLP])
    ELSE [p |-> [p EXCEPT !.length = newsize,
                          !.buffer = IF p.reallocate
                                     THEN Reallocated(p.buffer, newsize)
                                     ELSE Copied(p.buffer, newsize,
                                                 p.offset + 1)],
          ok |-> TRUE, at |-> p.offset,
          ub |-> ~p.reallocate /\ p.offset + 1 > Len(p.buffer.bytes)]

\* ensure(p, needed): [p, ok |-> the pointer is not NULL, at |-> its index
\* in the buffer, ub |-> memcpy read behind the old block]
ensure(p, needed, allocates) ==
    IF p.buffer = NULLP THEN EnsureNull(p)
    ELSE IF p.length > 0 /\ p.offset >= p.length THEN EnsureNull(p)
    ELSE IF needed > INT_MAX THEN EnsureNull(p)
    ELSE IF needed + p.offset + 1 <= p.length
    THEN [p |-> p, ok |-> TRUE, at |-> p.offset, ub |-> FALSE]
    ELSE IF p.noalloc THEN EnsureNull(p)
    ELSE EnsureGrow(p, NewSize(needed + p.offset + 1), allocates)

\* strlen(buffer + offset): the bytes before the first terminator
strlen(bytes, offset) ==
    CHOOSE n \in 0..(Len(bytes) - offset) :
      /\ \A i \in 1..n : bytes[offset + i] # "NUL"
      /\ offset + n + 1 > Len(bytes) \/ bytes[offset + n + 1] = "NUL"

\* update_offset: offset += strlen(buffer + offset)
update_offset(p) ==
    IF p.buffer = NULLP THEN p
    ELSE [p EXCEPT !.offset = @ + strlen(p.buffer.bytes, @)]

\* the buffer with count bytes and the terminator written from index at
WriteString(buffer, at, count) ==
    Block([i \in 1..Len(buffer.bytes) |->
              IF i > at /\ i <= at + count THEN "x"
              ELSE IF i = at + count + 1 THEN "NUL"
              ELSE buffer.bytes[i]])

\* the print buffers of sbJSON_PrintBuffered (prebuffer bytes), of
\* sbJSON_PrintPreallocated (length bytes) and of a caller without realloc
EnsureInit ==
    /\ \E length \in 0..INT_MAX, noalloc, reallocate \in BOOLEAN :
         last = [op |-> "init",
                 p |-> [buffer |-> FreshBlock(length), length |-> length,
                        offset |-> 0, noalloc |-> noalloc,
                        reallocate |-> reallocate],
                 written |-> 0]
    /\ heap = <<>>
    /\ kids = <<>>
    /\ detached = {}
    /\ freed = <<>>
    /\ pc = "idle"

\* output_pointer = ensure(p, needed)
EnsureCall ==
    /\ pc = "idle"
    /\ \E needed \in 0..(INT_MAX + 1), allocates \in BOOLEAN :
         LET e == ensure(last.p, needed, allocates) IN
           \E fault \in Faults(e.ub) :
              /\ last' = [op |-> "ensure", p |-> e.p, written |-> last.written,
                          before |-> last.p, needed |-> needed, ok |-> e.ok,
                          at |-> e.at]
              /\ pc' = IF fault THEN "fault"
                       ELSE IF e.ok THEN "ensured" ELSE "failed"
    /\ UNCHANGED <<heap, kids, detached, freed>>

\* the printer writes a string of count + 1 <= needed bytes, terminator
\* included, at output_pointer and calls update_offset
EnsureWrite ==
    /\ pc = "ensured"
    /\ last.needed > 0
    /\ \E count \in 0..(last.needed - 1) :
         last' = [op |-> "write",
                  p |-> update_offset(
                            [last.p EXCEPT !.buffer =
                                WriteString(@, last.at, count)]),
                  written |-> last.written + count]
    /\ pc' = "idle"
    /\ UNCHANGED <<heap, kids, detached, freed>>

EnsureNext == EnsureCall \/ EnsureWrite

SpecEnsure == EnsureInit /\ [][EnsureNext]_vars

\* the first count bytes of buffer are written bytes
WrittenBytes(buffer, count) ==
    /\ count <= Len(buffer.bytes)
    /\ \A i \in 1..count : buffer.bytes[i] = "x"

\* ensure could give needed + 1 bytes at the offset of q: the request is
\* within INT_MAX and the room is there or can be made
CanProvide(q, needed, grown) ==
    /\ q.buffer # NULLP
    /\ q.length = 0 \/ q.offset < q.length
    /\ needed <= INT_MAX
    /\ \/ needed + q.offset + 1 <= q.length
       \/ ~q.noalloc /\ needed + q.offset + 1 <= INT_MAX /\ grown

\* C21: whenever ensure(p, needed) returns a write position, at least
\* needed + 1 bytes are available in the buffer from the offset, the bytes
\* written so far are preserved and the buffer length is at most INT_MAX;
\* it returns NULL only when the request is beyond INT_MAX, the buffer may
\* not grow or the allocation failed.
C21_Ensure ==
    /\ pc = "ensured" =>
         /\ last.at = last.p.offset
         /\ last.p.offset + last.needed + 1 <= last.p.length
         /\ Len(last.p.buffer.bytes) = last.p.length
         /\ last.p.length <= INT_MAX
         /\ last.p.offset = last.written
         /\ WrittenBytes(last.p.buffer, last.written)
    /\ pc = "failed" =>
         \/ ~CanProvide(last.before, last.needed, FALSE)
         \/ last.p.buffer = NULLP

\* ensure grew a buffer that held written bytes, without realloc
C21_Witness ==
    /\ pc = "ensured"
    /\ last.written > 1
    /\ ~last.p.reallocate
    /\ last.p.length > last.before.length
    /\ last.p.length = INT_MAX

-----------------------------------------------------------------------------
(* sbJSON.c: the printer on its print buffer.  q = [p, ok, outside,        *)
(* allocated]: the print buffer p, whether the printers succeeded so far,  *)
(* whether a byte was written outside the block and whether ensure called  *)
(* the allocator.                                                          *)

Printing(buffer, length, noalloc) ==
    [p |-> [buffer |-> buffer, length |-> length, offset |-> 0,
            noalloc |-> noalloc, reallocate |-> TRUE],
     ok |-> TRUE, outside |-> FALSE, allocated |-> FALSE]

NotPrinted(q) == [q EXCEPT !.ok = FALSE]

\* the block with bytes written from index at, as far as the block reaches
Stored(buffer, at, bytes) ==
    Block([i \in 1..Len(buffer.bytes) |->
              IF i > at /\ i <= at + Len(bytes) THEN bytes[i - at]
              ELSE buffer.bytes[i]])

\* output = ensure(output_buffer, needed), return false if it is NULL;
\* bytes written from output; output_buffer->offset += advance
Output(q, needed, bytes, advance) ==
    IF ~q.ok THEN q
    ELSE LET e == ensure(q.p, needed, TRUE) IN
           IF ~e.ok
           THEN [p |-> e.p, ok |-> FALSE, outside |-> q.outside,
                 allocated |-> q.allocated \/ e.p # q.p]
           ELSE [p |-> [e.p EXCEPT !.buffer = Stored(@, e.at, bytes),
                                   !.offset = @ + advance],
                 ok |-> TRUE,
                 outside |-> q.outside
                               \/ e.at + Len(bytes) > Len(e.p.buffer.bytes),
                 allocated |-> q.allocated \/ e.p # q.p]

\* update_offset(output_buffer) after a printer that succeeded
Updated(q) == IF q.ok THEN [q EXCEPT !.p = update_offset(@)] ELSE q

\* print_number: ensure(length + sizeof("")), the digits, the terminator
print_number_to(u, q) ==
    Output(q, Len(print_number(u)) + 1, print_number(u) \o <<"NUL">>,
           Len(print_number(u)))

\* print_string_ptr: ensure(output_length + sizeof("\"\""))
print_string_ptr_to(input, q) ==
    IF input = NULLP THEN Output(q, 3, <<"\"", "\"", "NUL">>, 0)
    ELSE Output(q, Len(EscapedString(input.s)) + 3,
                print_string_ptr(input) \o <<"NUL">>, 0)

\* print_array: the comma behind an element that has a next
ElementSeparator(h, current_element, q, format) ==
    IF h[current_element].next = NULL THEN q
    ELSE IF format THEN Output(q, 3, <<",", " ", "NUL">>, 2)
    ELSE Output(q, 2, <<",", "NUL">>, 1)

\* print_array: the closing bracket
ClosingBracket(q) == Output(q, 2, <<"]", "NUL">>, 0)

\* print_object: the indentation of a member
MemberIndent(q, depth, format) ==
    IF format THEN Output(q, depth, Tabs(depth), depth) ELSE q

\* print_object: the colon behind the key
MemberColon(q, format) ==
    IF format THEN Output(q, 2, <<":", "\t">>, 2)
    ELSE Output(q, 1, <<":">>, 1)

\* print_object: the comma and the line end behind a member
MemberEnd(h, current_item, q, format) ==
    LET comma == IF h[current_item].next # NULL THEN <<",">> ELSE <<>>
        newline == IF format THEN <<"\n">> ELSE <<>>
    IN Output(q, Len(comma) + Len(newline) + 1,
              comma \o newline \o <<"NUL">>, Len(comma) + Len(newline))

\* print_object: the closing brace, depth counting the object itself
ClosingBrace(q, depth, format) ==
    IF format
    THEN Output(q, depth + 1, Tabs(depth - 1) \o <<"}", "NUL">>, 0)
    ELSE Output(q, 2, <<"}", "NUL">>, 0)

RECURSIVE print_value_to(_, _, _, _, _), print_elements_to(_, _, _, _, _),
          print_members_to(_, _, _, _, _)
\* print_value on the print buffer; depth is output_buffer->depth
print_value_to(h, item, q, depth, format) ==
    IF item = NULL \/ ~q.ok THEN NotPrinted(q)
    ELSE
      CASE h[item].type = "NULL" ->
             Output(q, 5, <<"n", "u", "l", "l", "NUL">>, 0)
        [] h[item].type = "False" ->
             Output(q, 6, <<"f", "a", "l", "s", "e", "NUL">>, 0)
        [] h[item].type = "True" ->
             Output(q, 5, <<"t", "r", "u", "e", "NUL">>, 0)
        [] h[item].type = "Number" -> print_number_to(h[item].u, q)
        [] h[item].type = "Raw" ->
             IF h[item].u = NULLP THEN NotPrinted(q)
             ELSE Output(q, Len(h[item].u.s) + 1,
                         h[item].u.s \o <<"NUL">>, 0)
        [] h[item].type = "String" -> print_string_ptr_to(h[item].u, q)
        [] h[item].type = "Array" ->
             \* print_array
             ClosingBracket(print_elements_to(h, h[item].child,
                                          Output(q, 1, <<"[">>, 1),
                                          depth + 1, format))
        [] h[item].type = "Object" ->
             \* print_object
             ClosingBrace(print_members_to(h, h[item].child,
                             IF format THEN Output(q, 3, <<"{", "\n">>, 2)
                             ELSE Output(q, 2, <<"{">>, 1),
                             depth + 1, format),
                         depth + 1, format)
        [] OTHER -> NotPrinted(q)

\* the loop of print_array over the elements from current_element
print_elements_to(h, current_element, q, depth, format) ==
    IF current_element = NULL \/ ~q.ok THEN q
    ELSE print_elements_to(h, h[current_element].next,
             ElementSeparator(h, current_element,
                 Updated(print_value_to(h, current_element, q, depth,
                                        format)),
                 format),
             depth, format)

\* the loop of print_object over the members from current_item
print_members_to(h, current_item, q, depth, format) ==
    IF current_item = NULL \/ ~q.ok THEN q
    ELSE print_members_to(h, h[current_item].next,
             MemberEnd(h, current_item,
                 Updated(print_value_to(h, current_item,
                     MemberColon(
                         Updated(print_string_ptr_to(h[current_item].string,
                                     MemberIndent(q, depth, format))),
                         format),
                     depth, format)),
                 format),
             depth, format)

\* sbJSON_PrintPreallocated with a print buffer that may grow
sbJSON_PrintPreallocated_growing(h, item, buffer, length, format) ==
    IF length < 0 \/ buffer = NULLP
    THEN NotPrinted(Printing(buffer, length, FALSE))
    ELSE print_value_to(h, item, Printing(buffer, length, FALSE), 0, format)

\* sbJSON_PrintPreallocated(item, buffer, length, format)
sbJSON_PrintPreallocated(h, item, buffer, length, format) ==
    IF length < 0 \/ buffer = NULLP
    THEN NotPrinted(Printing(buffer, length, TRUE))
    ELSE print_value_to(h, item, Printing(buffer, length, TRUE), 0, format)

PreallocatedLeaves ==
    {VNull, VTrue, VFalse, VInt(0), VDbl(3), VStr(KeyA),
     VStr(<<"a", "\"", "SOH">>), VRaw(<<"1", "2">>)}

PreallocatedInputs ==
    PreallocatedLeaves
      \cup {VArr(s) : s \in SeqUpTo(PreallocatedLeaves, 2)}
      \cup {VObj(<<Member(KeyA, v)>>) :
               v \in PreallocatedLeaves \cup {VArr(<<>>), VObj(<<>>)}}
      \cup {VObj(<<Member(KeyA, v), Member(KeyB, w)>>) :
               v \in {VNull, VInt(0)}, w \in {VTrue, VArr(<<VNull>>)}}
      \cup {VArr(<<VObj(<<Member(KeyA, VArr(<<VInt(0)>>))>>)>>), VObj(<<>>)}

PreallocatedInit ==
    /\ \E v \in PreallocatedInputs, format \in BOOLEAN :
         LET b == BuildTree(<<>>, v) IN
           /\ heap = b.h
           /\ last = [op |-> "BuildTree", r |-> b.r, format |-> format]
    /\ kids = <<>>
    /\ detached = {}
    /\ freed = <<>>
    /\ pc = "built"

\* text = format ? sbJSON_Print(item) : sbJSON_PrintUnformatted(item)
PreallocatedPrint ==
    /\ pc = "built"
    /\ LET p == print(heap, last.r, last.format) IN
         last' = [op |-> "Print", r |-> last.r, format |-> last.format,
                  text |-> IF p.ok THEN StrPtr(p.out, "heap") ELSE NULLP]
    /\ pc' = "printed"
    /\ UNCHANGED <<heap, kids, detached, freed>>

\* ok = sbJSON_PrintPreallocated(item, buffer, length, format), buffer
\* being NULL or a block of length bytes
PreallocatedCall ==
    /\ pc = "printed"
    /\ \E length \in (-1)..INT_MAX, null \in BOOLEAN :
         LET buffer == IF null \/ length < 0 THEN NULLP
                       ELSE FreshBlock(length)
             q == sbJSON_PrintPreallocated(heap, last.r, buffer, length,
                                           last.format)
         IN last' = [op |-> "PrintPreallocated", r |-> last.r,
                     format |-> last.format, text |-> last.text,
                     buffer |-> buffer, length |-> length, p |-> q.p,
                     ok |-> q.ok, outside |-> q.outside,
                     allocated |-> q.allocated]
    /\ pc' = "preallocated"
    /\ UNCHANGED <<heap, kids, detached, freed>>

PreallocatedNext == PreallocatedPrint \/ PreallocatedCall

SpecPreallocated == PreallocatedInit /\ [][PreallocatedNext]_vars

\* C22: sbJSON_PrintPreallocated writes no byte outside the length bytes of
\* the buffer and never allocates; it returns false when the text with its
\* terminator does not fit, and when length is at least the text length
\* plus the terminator plus 5 it returns true and the buffer holds the text
\* of sbJSON_Print / sbJSON_PrintUnformatted.
C22_Preallocated ==
    pc = "preallocated" =>
      /\ ~last.outside
      /\ ~last.allocated
      /\ last.p.length = last.length
      /\ last.text # NULLP
      /\ last.length < Len(last.text.s) + 1 => ~last.ok
      /\ (last.buffer # NULLP /\ last.length >= Len(last.text.s) + 1 + 5) =>
           /\ last.ok
           /\ CString(last.p.buffer.bytes) = last.text.s

\* a formatted object printed into a buffer that has the 5 bytes to spare
C22_Witness ==
    /\ pc = "preallocated"
    /\ last.ok
    /\ last.format
    /\ heap[last.r].type = "Object"
    /\ heap[last.r].child # NULL
    /\ last.length = Len(last.text.s) + 1 + 5
    /\ CString(last.p.buffer.bytes) = last.text.s

-----------------------------------------------------------------------------
(* print_number on integer Number nodes, into a print buffer as            *)
(* src/tests/print_number.c sets it up.                                    *)

\* the integers of the nodes: |n| <= MaxInteger
MaxInteger == 3

PrintNumberInit ==
    /\ \E n \in (-MaxInteger)..MaxInteger :
         LET c == sbJSON_CreateIntegerNumber(<<>>, n) IN
           /\ heap = c.h
           /\ last = [op |-> "CreateIntegerNumber", r |-> c.r, n |-> n]
    /\ kids = <<>>
    /\ detached = {}
    /\ freed = <<>>
    /\ pc = "created"

\* ok = print_number(item, &buffer), the buffer having length bytes
PrintNumberCall ==
    /\ pc = "created"
    /\ \E length \in 0..INT_MAX, noalloc \in BOOLEAN :
         LET q == print_number_to(heap[last.r].u,
                                  Printing(FreshBlock(length), length,
                                           noalloc))
         IN last' = [op |-> "print_number", r |-> last.r, n |-> last.n,
                     length |-> length, noalloc |-> noalloc, ok |-> q.ok,
                     printed |-> IF q.ok THEN CString(q.p.buffer.bytes)
                                 ELSE <<>>]
    /\ pc' = "printed"
    /\ UNCHANGED <<heap, kids, detached, freed>>

PrintNumberNext == PrintNumberCall

SpecPrintNumber == PrintNumberInit /\ [][PrintNumberNext]_vars

\* C23: for a Number node that holds an integer, the printer emits exactly
\* the decimal representation of the integer.
C23_IntegerDecimal ==
    (pc = "printed" /\ last.ok /\ ~heap[last.r].is_number_double) =>
      last.printed = IntToStr(last.n)

\* the integer -1 was printed, as null
C23_Witness ==
    /\ pc = "printed"
    /\ last.ok
    /\ ~heap[last.r].is_number_double
    /\ last.n = -1
    /\ last.printed = <<"n", "u", "l", "l">>

-----------------------------------------------------------------------------
(* Duplicating: the caller builds a tree and calls sbJSON_Duplicate on the *)
(* root or on its first child.                                             *)

DuplicateInputs ==
    DeleteInputs
      \cup {VArrRef(VArr(<<VNull, VStr(KeyA)>>)),
            VObj(<<MemberCS(KeyA, VStrRef(KeyB)), Member(KeyB, VArr(<<VTrue>>))>>)}

\* the nodes of the tree of item
RECURSIVE TreeNodes(_, _)
TreeNodes(h, item) ==
    IF item = NULL THEN {}
    ELSE {item} \cup UNION {TreeNodes(h, c) : c \in Range(ChildList(h, item))}

\* what a tree is made of: kinds, keys, values and the order of children
RECURSIVE Shape(_, _), ShapeList(_, _)
Shape(h, item) ==
    [type |-> h[item].type,
     is_number_double |-> h[item].is_number_double,
     key |-> IF h[item].string = NULLP THEN NULLP
             ELSE [s |-> h[item].string.s],
     value |-> IF h[item].u = NULLP THEN NULLP
               ELSE IF h[item].u.p = "str" THEN [s |-> h[item].u.s]
               ELSE h[item].u,
     children |-> ShapeList(h, h[item].child)]

ShapeList(h, child) ==
    IF child = NULL THEN <<>>
    ELSE <<Shape(h, child)>> \o ShapeList(h, h[child].next)

\* the strings of the node n are its own: copies on the heap, or a
\* constant key, which no node owns
OwnStrings(n) ==
    /\ n.u # NULLP /\ n.u.p = "str" => n.u.own = "heap"
    /\ n.string # NULLP => n.string_is_const \/ n.string.own = "heap"

DuplicateInit ==
    /\ \E v \in DuplicateInputs :
         LET b == BuildTree(<<>>, v) IN
           /\ heap = b.h
           /\ last = [op |-> "BuildTree", r |-> b.r, v |-> v]
    /\ kids = <<>>
    /\ detached = {}
    /\ freed = <<>>
    /\ pc = "built"

\* copy = sbJSON_Duplicate(item, true), item being the root or its first
\* child
DuplicateCall ==
    /\ pc = "built"
    /\ \E item \in {last.r} \cup ({heap[last.r].child} \ {NULL}) :
         LET d == sbJSON_Duplicate(heap, item, TRUE) IN
           \E fault \in Faults(d.ub) :
             /\ heap' = IF fault THEN heap ELSE d.h
             /\ last' = [op |-> "Duplicate", r |-> last.r, v |-> last.v,
                         item |-> item,
                         copy |-> IF fault THEN NULL ELSE d.r]
             /\ pc' = IF fault THEN "fault" ELSE "duplicated"
    /\ UNCHANGED <<kids, detached, freed>>

\* sbJSON_Delete(copy)
DuplicateDelete ==
    /\ pc = "duplicated"
    /\ last.copy # NULL
    /\ LET d == sbJSON_Delete(heap, last.copy) IN
         \E fault \in Faults(d.ub \/ BadFree(d.freed)) :
           /\ heap' = IF fault THEN heap ELSE d.h
           /\ freed' = IF fault THEN freed ELSE d.freed
           /\ pc' = IF fault THEN "fault" ELSE "deleted"
    /\ last' = [last EXCEPT !.op = "Delete"]
    /\ UNCHANGED <<kids, detached>>

DuplicateNext == DuplicateCall \/ DuplicateDelete

SpecDuplicate == DuplicateInit /\ [][DuplicateNext]_vars

\* C24: sbJSON_Duplicate(item, true) returns a new tree that shares no node
\* and no owned string with item, is made of the same kinds, keys, values
\* and child order, has next and prev NULL at its root, and leaves the tree
\* of item as it was.
C24_Duplicate ==
    /\ pc # "fault"
    /\ pc = "duplicated" =>
         /\ last.copy # NULL
         /\ TreeNodes(heap, last.copy) \cap DOMAIN BuildTree(<<>>, last.v).h = {}
         /\ \A n \in TreeNodes(heap, last.copy) : OwnStrings(heap[n])
         /\ [Shape(heap, last.copy) EXCEPT !.key = NULLP]
              = [Shape(heap, last.item) EXCEPT !.key = NULLP]
         /\ Shape(heap, last.copy).key = Shape(heap, last.item).key
         /\ heap[last.copy].next = NULL
         /\ heap[last.copy].prev = NULL
         /\ \A n \in DOMAIN BuildTree(<<>>, last.v).h :
              heap[n] = BuildTree(<<>>, last.v).h[n]

\* an object member with its siblings was duplicated
C24_Witness ==
    /\ pc = "duplicated"
    /\ last.item # last.r
    /\ heap[last.item].next # NULL
    /\ heap[last.copy].next = NULL
    /\ heap[last.copy].string # NULLP
    /\ last.copy \notin DOMAIN BuildTree(<<>>, last.v).h

-----------------------------------------------------------------------------
(* Patch operations on the members of an Object whose keys differ in       *)
(* letter case.                                                            *)

\* the path /k of the member k of the root
MemberPath(key) == <<"/">> \o key

\* one operation on the member key; move takes it from key to /b, copy is
\* left out
MemberOperation(op, key) ==
    CASE op = AddText ->
           VObj(Operation(AddText, MemberPath(key))
                  \o <<Member(ValueName, VStr(<<"y">>))>>)
      [] op = RemoveText -> VObj(Operation(RemoveText, MemberPath(key)))
      [] op = ReplaceText ->
           VObj(Operation(ReplaceText, MemberPath(key))
                  \o <<Member(ValueName, VStr(<<"y">>))>>)
      [] op = MoveText ->
           VObj(Operation(MoveText, PathB)
                  \o <<Member(FromName, VStr(MemberPath(key)))>>)

\* the value of the member key in the documents
MemberValue(key) ==
    IF key = KeyA THEN VStr(<<"x">>)
    ELSE IF key = KeyUpperA THEN VStr(<<"X">>)
    ELSE VArr(<<VNull>>)

\* the objects with at most two of the members "a", "A" and "c"
MemberDocuments ==
    {VObj([i \in DOMAIN s |-> Member(s[i], MemberValue(s[i]))]) :
        s \in {t \in SeqUpTo({KeyA, KeyUpperA, <<"c">>}, 2) :
                 \A i, j \in DOMAIN t : i # j => t[i] # t[j]}}

MemberInit ==
    /\ \E v \in MemberDocuments, key \in {KeyA, KeyUpperA, <<"c">>},
          op \in {AddText, RemoveText, ReplaceText, MoveText} :
         LET object == BuildTree(<<>>, v)
             patches == BuildTree(object.h,
                                  VArr(<<MemberOperation(op, key)>>))
         IN /\ heap = patches.h
            /\ last = [op |-> "BuildTree", object |-> object.r,
                       patches |-> patches.r, operation |-> op, key |-> key]
    /\ kids = <<>>
    /\ detached = {}
    /\ freed = <<>>
    /\ pc = "built"

\* status = sbJSONUtils_ApplyPatches(object, patches)
MemberApply ==
    /\ pc = "built"
    /\ LET a == sbJSONUtils_ApplyPatches(heap, last.object, last.patches) IN
         \E fault \in Faults(a.ub) :
            /\ heap' = IF fault THEN heap ELSE a.h
            /\ pc' = IF fault THEN "fault" ELSE "applied"
            /\ last' = [op |-> "ApplyPatches", object |-> last.object,
                        patches |-> last.patches,
                        operation |-> last.operation, key |-> last.key,
                        before |-> AbsMembers(heap, heap[last.object].child),
                        status |-> a.r]
    /\ UNCHANGED <<kids, detached, freed>>

MemberNext == MemberApply

SpecMember == MemberInit /\ [][MemberNext]_vars

\* the keys the operation of the last call names
NamedKeys ==
    IF last.operation = MoveText THEN {last.key, KeyB} ELSE {last.key}

\* C25: remove, replace and move of the path /k affect only a member whose
\* key is byte-identical to k and fail when there is none, and add of /k
\* replaces only such a member: a member whose key differs from k in letter
\* case is never removed or replaced.
C25_ExactKey ==
    pc = "applied" =>
      /\ \A m \in last.before :
           m.key \notin NamedKeys =>
             m \in AbsMembers(heap, heap[last.object].child)
      /\ (last.operation # AddText
            /\ \A m \in last.before : m.key # last.key) =>
           last.status # 0

\* remove of /a succeeded on an object whose only member is "A"
C25_Witness ==
    /\ pc = "applied"
    /\ last.operation = RemoveText
    /\ last.key = KeyA
    /\ {m.key : m \in last.before} = {KeyUpperA}
    /\ last.status = 0
    /\ heap[last.object].child = NULL

-----------------------------------------------------------------------------
(* Sorting and appending: the caller builds an object, has it sorted by    *)
(* one of the utilities and adds a member to it.                           *)

\* the objects have at most this many members
MaxSortWidth == 3

KeyC == <<"c">>

KeyD == <<"d">>

\* the objects whose members are some of "a", "b", "c" in any order, the
\* value of a member being its key
SortInputs ==
    {VObj([i \in DOMAIN s |-> Member(s[i], VStr(s[i]))]) :
        s \in {t \in SeqUpTo({KeyA, KeyB, KeyC}, MaxSortWidth) :
                 \A i, j \in DOMAIN t : i # j => t[i] # t[j]}}

\* [{"op": "test", "path": "", "value": v}]
TestWhole(v) ==
    VArr(<<VObj(Operation(TestText, <<>>) \o <<Member(ValueName, v)>>)>>)

\* object, an equal tree other and the patch that tests object against it
SortInit ==
    /\ \E v \in SortInputs :
         LET object == BuildTree(<<>>, v)
             other == BuildTree(object.h, v)
             patches == BuildTree(other.h, TestWhole(v))
         IN /\ heap = patches.h
            /\ last = [op |-> "BuildTree", object |-> object.r,
                       other |-> other.r, patches |-> patches.r,
                       before |-> AbsMembers(object.h, object.h[object.r].child)]
    /\ kids = <<>>
    /\ detached = {}
    /\ freed = <<>>
    /\ pc = "built"

\* sbJSONUtils_SortObject(object)
SortBySortObject ==
    /\ pc = "built"
    /\ heap' = sbJSONUtils_SortObject(heap, last.object)
    /\ last' = [last EXCEPT !.op = "SortObject"]
    /\ pc' = "sorted"
    /\ UNCHANGED <<kids, detached, freed>>

\* sbJSONUtils_GeneratePatches(object, other)
SortByGeneratePatches ==
    /\ pc = "built"
    /\ heap' = sbJSONUtils_GeneratePatches(heap, last.object, last.other).h
    /\ last' = [last EXCEPT !.op = "GeneratePatches"]
    /\ pc' = "sorted"
    /\ UNCHANGED <<kids, detached, freed>>

\* sbJSONUtils_GenerateMergePatch(object, other)
SortByGenerateMergePatch ==
    /\ pc = "built"
    /\ heap' = sbJSONUtils_GenerateMergePatch(heap, last.object, last.other).h
    /\ last' = [last EXCEPT !.op = "GenerateMergePatch"]
    /\ pc' = "sorted"
    /\ UNCHANGED <<kids, detached, freed>>

\* sbJSONUtils_ApplyPatches(object, patches), patches holding one test
SortByTest ==
    /\ pc = "built"
    /\ heap' = sbJSONUtils_ApplyPatches(heap, last.object, last.patches).h
    /\ last' = [last EXCEPT !.op = "ApplyPatches"]
    /\ pc' = "sorted"
    /\ UNCHANGED <<kids, detached, freed>>

\* sbJSON_AddItemToObject(object, "d", sbJSON_CreateString("d"))
SortAdd ==
    /\ pc = "sorted"
    /\ heap' = AddStringMember(heap, last.object, KeyD, KeyD)
    /\ last' = [last EXCEPT !.op = "AddItemToObject"]
    /\ pc' = "added"
    /\ UNCHANGED <<kids, detached, freed>>

SortNext ==
    \/ SortBySortObject
    \/ SortByGeneratePatches
    \/ SortByGenerateMergePatch
    \/ SortByTest
    \/ SortAdd

SpecSort == SortInit /\ [][SortNext]_vars

\* the keys of the members of object along the next chain
KeysAlong(h, object) ==
    [i \in DOMAIN ChildList(h, object) |->
        h[ChildList(h, object)[i]].string.s]

Ascending(keys) ==
    \A i, j \in DOMAIN keys : i < j => strcmp(keys[i], keys[j]) < 0

\* C26: after sbJSONUtils_SortObject and after the sorting inside
\* sbJSONUtils_GeneratePatches, sbJSONUtils_GenerateMergePatch and the patch
\* operation test, the object has the members it had, in ascending key
\* order, and the prev of its first child is its last child; a later
\* sbJSON_AddItemToObject appends the new member after the last one and
\* drops no member.
C26_SortKeepsList ==
    /\ pc = "sorted" =>
         /\ AbsMembers(heap, heap[last.object].child) = last.before
         /\ Len(KeysAlong(heap, last.object)) = Cardinality(last.before)
         /\ Ascending(KeysAlong(heap, last.object))
         /\ heap[last.object].child # NULL =>
              heap[heap[last.object].child].prev
                = ChildList(heap, last.object)[Cardinality(last.before)]
    /\ pc = "added" =>
         /\ last.before \subseteq AbsMembers(heap, heap[last.object].child)
         /\ Len(KeysAlong(heap, last.object)) = Cardinality(last.before) + 1
         /\ KeysAlong(heap, last.object)[Cardinality(last.before) + 1] = KeyD

\* sbJSONUtils_SortObject has put three members in order
C26_Witness ==
    /\ pc = "sorted"
    /\ last.op = "SortObject"
    /\ KeysAlong(heap, last.object) = <<KeyA, KeyB, KeyC>>
    /\ AbsMembers(heap, heap[last.object].child) = last.before
    /\ heap[heap[last.object].child].prev # ChildList(heap, last.object)[3]

-----------------------------------------------------------------------------
(* References in containers: the caller owns a tree or a string, creates a *)
(* reference to it, adds the reference to a container and deletes the      *)
(* container.                                                              *)

\* the referenced arrays have at most this many elements
MaxReferenceWidth == 2

ReferenceTargets ==
    {VArr(s) : s \in SeqUpTo({VNull, VTrue, VStr(KeyA)}, MaxReferenceWidth)
                       \ {<<>>}}

ReferenceContainers ==
    {VArr(<<>>), VArr(<<VNull>>), VObj(<<>>), VObj(<<Member(KeyB, VNull)>>)}

\* the reference the caller creates to the children of target
CreateReference(h, kind, target) ==
    CASE kind = "Object" -> sbJSON_CreateObjectReference(h, h[target].child)
      [] kind = "Array" -> sbJSON_CreateArrayReference(h, h[target].child)
      [] kind = "String" ->
           sbJSON_CreateStringReference(h, StrPtr(KeyA, "ext"))

ReferenceInit ==
    /\ \E v \in ReferenceTargets, w \in ReferenceContainers,
          kind \in {"Object", "Array", "String"} :
         LET target == BuildTree(<<>>, v)
             container == BuildTree(target.h, w)
             reference == CreateReference(container.h, kind, target.r)
         IN /\ heap = reference.h
            /\ last = [op |-> "CreateReference", target |-> target.r,
                       container |-> container.r, reference |-> reference.r,
                       referenced |-> IF kind = "String" THEN {}
                                      ELSE TreeNodes(target.h, target.r)
                                             \ {target.r}]
    /\ kids = <<>>
    /\ detached = {}
    /\ freed = <<>>
    /\ pc = "created"

\* sbJSON_AddItemToArray(container, reference)
ReferenceAddToArray ==
    /\ pc = "created"
    /\ heap[last.container].type = "Array"
    /\ heap' = sbJSON_AddItemToArray(heap, last.container, last.reference).h
    /\ last' = [last EXCEPT !.op = "AddItemToArray"]
    /\ pc' = "added"
    /\ UNCHANGED <<kids, detached, freed>>

\* sbJSON_AddItemToObject(container, "a", reference)
ReferenceAddToObject ==
    /\ pc = "created"
    /\ heap[last.container].type = "Object"
    /\ heap' = sbJSON_AddItemToObject(heap, last.container,
                                      StrPtr(KeyA, "ext"), last.reference).h
    /\ last' = [last EXCEPT !.op = "AddItemToObject"]
    /\ pc' = "added"
    /\ UNCHANGED <<kids, detached, freed>>

\* sbJSON_AddItemToObjectCS(container, "a", reference)
ReferenceAddToObjectCS ==
    /\ pc = "created"
    /\ heap[last.container].type = "Object"
    /\ heap' = sbJSON_AddItemToObjectCS(heap, last.container,
                                        StrPtr(KeyA, "ext"), last.reference).h
    /\ last' = [last EXCEPT !.op = "AddItemToObjectCS"]
    /\ pc' = "added"
    /\ UNCHANGED <<kids, detached, freed>>

\* sbJSON_Delete(container)
ReferenceDelete ==
    /\ pc = "added"
    /\ LET d == sbJSON_Delete(heap, last.container) IN
         /\ heap' = d.h
         /\ freed' = d.freed
    /\ last' = [last EXCEPT !.op = "Delete"]
    /\ pc' = "deleted"
    /\ UNCHANGED <<kids, detached>>

ReferenceNext ==
    \/ ReferenceAddToArray
    \/ ReferenceAddToObject
    \/ ReferenceAddToObjectCS
    \/ ReferenceDelete

SpecReference == ReferenceInit /\ [][ReferenceNext]_vars

\* C27: a reference node added to a container with sbJSON_AddItemToArray,
\* sbJSON_AddItemToObject or sbJSON_AddItemToObjectCS is still a reference,
\* and deleting the container frees neither the referenced children nor
\* the referenced string.
C27_StaysReference ==
    /\ pc = "added" => heap[last.reference].is_reference
    /\ pc = "deleted" =>
         /\ last.referenced \subseteq DOMAIN heap
         /\ \A i \in DOMAIN freed :
              freed[i].what = "valuestring" => freed[i].at # last.reference

\* the container with a reference to two nodes added by
\* sbJSON_AddItemToObject was deleted and the two nodes are still there
C27_Witness ==
    /\ pc = "deleted"
    /\ Cardinality(last.referenced) = 2
    /\ last.referenced \subseteq DOMAIN heap
    /\ last.reference \notin DOMAIN heap
    /\ \E i \in DOMAIN freed : freed[i].what = "string"
                                 /\ freed[i].at = last.reference

-----------------------------------------------------------------------------
(* Single patch operations that may fail, and what they leave of the       *)
(* document and of the patches.                                            *)

PathC == <<"/", "c">>

\* a path whose parent /c is in no document
PathCD == <<"/", "c", "/", "d">>

\* an index beyond the length of every array
PathFive == <<"/", "5">>

ValueY == <<Member(ValueName, VStr(<<"y">>))>>

SingleOperations ==
    {VObj(Operation(ReplaceText, PathA)),
     VObj(Operation(ReplaceText, PathC) \o ValueY),
     VObj(Operation(AddText, PathA)),
     VObj(Operation(AddText, PathCD) \o ValueY),
     VObj(Operation(AddText, PathFive) \o ValueY),
     VObj(Operation(AddText, PathB) \o <<Member(ValueName, VObj(<<Member(KeyB, VNull), Member(KeyA, VNull)>>))>>),
     VObj(Operation(RemoveText, PathC)),
     VObj(Operation(RemoveText, PathA)),
     VObj(Operation(MoveText, PathCD) \o <<Member(FromName, VStr(PathA))>>),
     VObj(Operation(MoveText, PathB) \o <<Member(FromName, VStr(PathC))>>),
     VObj(Operation(MoveText, PathB)),
     VObj(Operation(CopyText, PathCD) \o <<Member(FromName, VStr(PathA))>>),
     VObj(Operation(CopyText, PathB) \o <<Member(FromName, VStr(PathA))>>),
     VObj(Operation(TestText, PathA) \o ValueY),
     VObj(Operation(TestText, <<>>) \o <<Member(ValueName, VObj(<<Member(KeyB, VStr(<<"x">>)), Member(KeyA, VStr(<<"y">>))>>))>>),
     VObj(Operation(TestText, <<>>) \o <<Member(ValueName, VObj(<<Member(KeyB, VStr(<<"x">>)), Member(KeyA, VStr(<<"x">>))>>))>>),
     VObj(<<Member(OpName, VStr(<<"b", "a", "d">>)), Member(PathName, VStr(PathA))>>),
     VObj(<<Member(OpName, VStr(RemoveText))>>)}

SingleDocuments ==
    {VObj(<<>>), VObj(<<Member(KeyA, VStr(<<"x">>))>>),
     VObj(<<Member(KeyA, VStr(<<"x">>)), Member(KeyB, VStr(<<"x">>))>>),
     VObj(<<Member(KeyB, VStr(<<"x">>)), Member(KeyA, VStr(<<"x">>))>>),
     VObj(<<Member(KeyA, VArr(<<VNull>>))>>),
     VArr(<<>>), VArr(<<VStr(<<"x">>)>>)}

SingleInit ==
    /\ \E v \in SingleDocuments, w \in SingleOperations :
         LET object == BuildTree(<<>>, v)
             patches == BuildTree(object.h, VArr(<<w>>))
         IN /\ heap = patches.h
            /\ last = [op |-> "BuildTree", object |-> object.r,
                       patches |-> patches.r]
    /\ kids = <<>>
    /\ detached = {}
    /\ freed = <<>>
    /\ pc = "built"

\* status = sbJSONUtils_ApplyPatches(object, patches)
SingleApply ==
    /\ pc = "built"
    /\ LET a == sbJSONUtils_ApplyPatches(heap, last.object, last.patches) IN
         \E fault \in Faults(a.ub) :
            /\ heap' = IF fault THEN heap ELSE a.h
            /\ pc' = IF fault THEN "fault" ELSE "applied"
            /\ last' = [op |-> "ApplyPatches", object |-> last.object,
                        patches |-> last.patches, before |-> heap,
                        status |-> a.r]
    /\ UNCHANGED <<kids, detached, freed>>

SingleNext == SingleApply

SpecSingle == SingleInit /\ [][SingleNext]_vars

\* the tree of root is in h node for node as it is in before
SameTree(h, before, root) ==
    \A n \in TreeNodes(before, root) : n \in DOMAIN h /\ h[n] = before[n]

\* C28: a patch operation that fails leaves the document as it was before
\* the operation.
C28_FailedUnchanged ==
    (pc = "applied" /\ last.status # 0) =>
      SameTree(heap, last.before, last.object)

\* a replace without a value failed on a document that has the member
C28_Witness ==
    /\ pc = "applied"
    /\ last.status = 7
    /\ last.before[last.object].child # NULL
    /\ heap[last.object].child = NULL

\* C29: sbJSONUtils_ApplyPatches leaves the patches document as it was,
\* whatever the operation and whatever the result: the same operations,
\* members, member order, values and links.
C29_PatchesUnchanged ==
    pc = "applied" => SameTree(heap, last.before, last.patches)

\* an operation changed the document and left the patches as they were
C29_Witness ==
    /\ pc = "applied"
    /\ last.status = 0
    /\ ~SameTree(heap, last.before, last.object)
    /\ SameTree(heap, last.before, last.patches)

-----------------------------------------------------------------------------
(* Buffer bounds: the caller hands sbJSON_ParseWithLengthOpts the first    *)
(* buffer_length bytes of a piece of memory; the bytes behind them are     *)
(* whatever the memory holds there.  The call is then repeated on a buffer *)
(* that ends where the memory ends.                                        *)

\* {"a":0,"b":[0,"\""]}
MemoryObject ==
    <<"{", "\"", "a", "\"", ":", "0", ",", "\"", "b", "\"", ":", "[", "0",
      ",", "\"", "\\", "\"", "\"", "]", "}">>

\* a byte order mark, then {"a" :{} , "b":[]} and a NUL
MemorySpaced ==
    <<"xEF", "xBB", "xBF", "{", "\"", "a", "\"", " ", ":", "{", "}", " ",
      ",", " ", "\"", "b", "\"", ":", "[", "]", "}", "NUL">>

\* [0 ,true,null, false]
MemoryArray ==
    <<"[", "0", " ", ",", "t", "r", "u", "e", ",", "n", "u", "l", "l", ",",
      " ", "f", "a", "l", "s", "e", "]">>

\* {"":0,x
MemoryComma == <<"{", "\"", "\"", ":", "0", ",", "x">>

Memories == {MemoryObject, MemorySpaced, MemoryArray, MemoryComma}

BufferInit ==
    /\ \E memory \in Memories, require_null_terminated \in BOOLEAN :
         \E buffer_length \in 0..Len(memory) :
           last = [op |-> "memory", memory |-> memory,
                   buffer_length |-> buffer_length,
                   require_null_terminated |-> require_null_terminated]
    /\ heap = <<>>
    /\ kids = <<>>
    /\ detached = {}
    /\ freed = <<>>
    /\ pc = "memory"

\* what the caller sees of the outcome p of a parse, and the offsets the
\* parse_buffer went through
Outcome(p) ==
    [failed |-> p.r = NULL, offset |-> p.pb.offset, trace |-> p.pb.trace,
     parse_end |-> p.parse_end, position |-> p.position]

\* r = sbJSON_ParseWithLengthOpts(memory, buffer_length, &parse_end,
\*                                require_null_terminated)
BufferParse ==
    /\ pc = "memory"
    /\ LET p == sbJSON_ParseWithLengthOpts(heap, StrPtr(last.memory, "ext"),
                                           last.buffer_length,
                                           last.require_null_terminated)
       IN /\ heap' = p.h
          /\ freed' = p.pb.freed
          /\ last' = [op |-> "ParseWithLengthOpts", memory |-> last.memory,
                      buffer_length |-> last.buffer_length,
                      require_null_terminated |-> last.require_null_terminated,
                      r |-> p.r, in_memory |-> Outcome(p)]
    /\ pc' = "parsed"
    /\ UNCHANGED <<kids, detached>>

\* the same call on a copy of the first buffer_length bytes with nothing
\* behind them
BufferParseAlone ==
    /\ pc = "parsed"
    /\ LET p == sbJSON_ParseWithLengthOpts(
                  heap, StrPtr(Take(last.memory, last.buffer_length), "ext"),
                  last.buffer_length, last.require_null_terminated)
       IN /\ heap' = p.h
          /\ freed' = p.pb.freed
          /\ last' = [op |-> "ParseWithLengthOpts", memory |-> last.memory,
                      buffer_length |-> last.buffer_length,
                      require_null_terminated |-> last.require_null_terminated,
                      r |-> p.r, in_memory |-> last.in_memory,
                      alone |-> Outcome(p)]
    /\ pc' = "repeated"
    /\ UNCHANGED <<kids, detached>>

BufferNext == BufferParse \/ BufferParseAlone

SpecBuffer == BufferInit /\ [][BufferNext]_vars

\* the offset of the parse_buffer stayed within the buffer: at every point
\* the parse went through and when it returned
OffsetWithin(o, buffer_length) ==
    /\ o.offset <= buffer_length
    /\ \A i \in DOMAIN o.trace : o.trace[i].offset <= buffer_length

\* C30: for every buffer and buffer_length handed to
\* sbJSON_ParseWithLengthOpts, NUL-terminated or not, the parse returns, its
\* offset is at most buffer_length at every point, and it reads no byte at
\* an index from buffer_length on: what it returns is the same whatever
\* lies behind the buffer.
C30_WithinBuffer ==
    /\ pc \in {"parsed", "repeated"} =>
          OffsetWithin(last.in_memory, last.buffer_length)
    /\ pc = "repeated" =>
          /\ OffsetWithin(last.alone, last.buffer_length)
          /\ last.alone = last.in_memory

\* a buffer that is not NUL-terminated and ends after the comma that
\* follows a member of an object: the parse failed with its offset one past
\* buffer_length
C30_Witness ==
    /\ pc = "parsed"
    /\ last.buffer_length > 0
    /\ last.memory[last.buffer_length] = ","
    /\ last.in_memory.failed
    /\ last.in_memory.offset = last.buffer_length + 1

=============================================================================
